---- MODULE Spec2Model ----
(***************************************************************************)
(* Model of the Reddit persona generator: the web front end's single-slot  *)
(* job control (web_interface.py), the per-job pipeline                    *)
(* (reddit_persona_generator.py, reddit_scraper.py, persona_generator.py,  *)
(* file_manager.py) and the model candidate chain (model_manager.py).      *)
(*                                                                         *)
(* Threads.  Every Flask handler is one action.  A job worker              *)
(* (run_generation) is a thread of its own: it is one action per access to *)
(* the shared globals (generation_lock, current_status); the local work    *)
(* that precedes an access (a constructor, the model load, a fetch, the    *)
(* model invocation, the file write) is part of the action of that access, *)
(* with its outcome chosen nondeterministically.                           *)
(***************************************************************************)
EXTENDS Naturals, Integers, Sequences, FiniteSets, TLC

\* Number of jobs (worker threads) one run of the model admits.
MaxJobs == 2
\* Batch reports the scraper makes per listing in one run of the model.
MaxBatches == 1

Jobs == 1..MaxJobs

\* Python's None, as the value of a status field.
None == "None"

VARIABLES
    current_status,   \* web_interface.current_status (the dict the pollers read)
    generation_lock,  \* web_interface.generation_lock
    resp,             \* the response of the request handled in the last step ("none"
                      \* when the last step was a worker's)
    stale_warning,    \* the last step logged "Stale generation lock detected"
    pc,               \* pc[w]: the next shared access of job w's worker thread
    exc,              \* exc[w]: str(e) of the exception in flight in worker w
    batches,          \* batches[w]: batch reports made in the scraper's current loop
    persona,          \* persona[w]: where the job's persona text came from
    rep,              \* rep[w]: the last progress report (stage, progress) of job w
    hi,               \* hi[w]: the highest stage rank job w has reported so far
    mgr,              \* a ModelManager: its fields and its position in load_model
    env,              \* env[i]: the step at which loading candidate i fails, or "ok"
    cache_dir,        \* ~/.cache/huggingface/transformers exists
    rd,               \* a status poller: its position in api_status and what it has read
    probe,            \* an observer of the workers: the candidate chains run so far and
                      \* the last call of generate_with_timeout
    engine            \* the analysis engine run on its own: a behaviour record (posts,
                      \* comments), the interpreter's string hash seed, and the results
                      \* of the first and of the latest run; in SpecSentiment the
                      \* samples and results of analyze_sentiment (scan), in
                      \* SpecUpdater the progress_updater threads (updater)

webVars == <<current_status, generation_lock, resp, stale_warning>>
jobVars == <<pc, exc, batches, persona, rep, hi>>
mgrVars == <<mgr, env, cache_dir>>
obsVars == <<rd, probe, engine>>
vars == <<current_status, generation_lock, resp, stale_warning,
          pc, exc, batches, persona, rep, hi, mgr, env, cache_dir, rd, probe, engine>>

-----------------------------------------------------------------------------
(* The status record and its writers.                                      *)

\* The keys of current_status a reader uses; output_file = 0 when the key is absent.
Status(stage, progress, message, error, completed, output_file) ==
    [stage |-> stage, progress |-> progress, message |-> message,
     error |-> error, completed |-> completed, output_file |-> output_file]

\* reddit_persona_generator.current_status as imported at start-up.
InitialStatus == Status("idle", 0, "Ready", None, FALSE, 0)

\* The stages of the Job State Machine, in the order the state machine gives them.
Rank(stage) ==
    CASE stage = "idle" -> 0
      [] stage = "starting" -> 1
      [] stage \in {"initializing", "loading"} -> 2
      [] stage \in {"fetching_posts", "fetching_comments"} -> 3
      [] stage \in {"preparing_data", "analyzing_sentiment"} -> 4
      [] stage = "generating_persona" -> 5
      [] stage \in {"saving_results", "saving"} -> 6
      [] stage = "finalizing" -> 7
      [] stage \in {"completed", "error"} -> 8

Max(a, b) == IF a >= b THEN a ELSE b

\* web_progress_callback updating four keys: the completed key is left alone.
web_progress_callback_KeepsCompleted(s, stage, progress, message) ==
    [s EXCEPT !.stage = stage,
              !.progress = progress,
              !.message = message,
              !.error = IF stage # "error" THEN None ELSE s.error]

\* web_progress_callback: dict.update of five keys; output_file is left alone.
web_progress_callback(s, stage, progress, message) ==
    [s EXCEPT !.stage = stage,
              !.progress = progress,
              !.message = message,
              !.completed = (stage = "completed"),
              !.error = IF stage # "error" THEN None ELSE s.error]

-----------------------------------------------------------------------------
(* ModelManager.load_model: the candidate chain.                           *)

\* len(DEFAULT_MODELS)
NumModels == 3
Candidates == 1..NumModels

\* What can go wrong with one candidate: the call that raises, or none.
Outcomes == {"ok", "tokenizer", "weights", "pipeline", "smoke"}
Envs == [Candidates -> Outcomes]

Report(stage, progress) == [stage |-> stage, progress |-> progress]

\* ModelManager.__init__: no generator, no tokenizer (0 is None; i is candidate i's).
NewManager ==
    [generator |-> 0, tokenizer |-> 0, i |-> 0, at |-> "new",
     rep |-> Report("idle", 0), prev |-> Report("idle", 0)]

\* self.update_progress(stage, progress, ...) of the manager: rep is the report made,
\* prev the one before it.
MgrReport(m, progress) ==
    [m EXCEPT !.prev = m.rep, !.rep = Report("loading", progress)]

CandidateFailed_SkipsNext(m) ==
    [MgrReport(m, 30) EXCEPT !.i = m.i + 2, !.at = "try"]

\* The except branch of the candidate loop: report 30 and go on to the next candidate.
CandidateFailed(m) ==
    [MgrReport(m, 30) EXCEPT !.i = m.i + 1, !.at = "try"]

\* One step of load_model: the work up to and including the next progress report,
\* return or raise.  m.at names the statement the call has reached.
LoadStep(m, e) ==
    CASE m.at = "call" ->
            IF m.generator # 0
            THEN [m EXCEPT !.at = "returned"]
            ELSE [MgrReport(m, 0) EXCEPT !.i = 1, !.at = "try"]
      [] m.at = "try" ->
            IF m.i > NumModels
            THEN [m EXCEPT !.at = "raised"]
            ELSE [MgrReport(m, 10) EXCEPT !.at = "r20"]
      [] m.at = "r20" -> [MgrReport(m, 20) EXCEPT !.at = "tokenizer"]
      [] m.at = "tokenizer" ->
            IF e[m.i] = "tokenizer"
            THEN CandidateFailed(m)
            ELSE [MgrReport(m, 30) EXCEPT !.tokenizer = m.i, !.at = "r40"]
      [] m.at = "r40" -> [MgrReport(m, 40) EXCEPT !.at = "weights"]
      [] m.at = "weights" ->
            IF e[m.i] = "weights"
            THEN CandidateFailed(m)
            ELSE [MgrReport(m, 80) EXCEPT !.at = "pipeline"]
      [] m.at = "pipeline" ->
            IF e[m.i] = "pipeline"
            THEN CandidateFailed(m)
            ELSE [MgrReport(m, 90) EXCEPT !.generator = m.i, !.at = "smoke"]
      [] m.at = "smoke" ->
            IF e[m.i] = "smoke"
            THEN CandidateFailed(m)
            ELSE [MgrReport(m, 100) EXCEPT !.at = "returned"]

\* load_model run from the call to its return or raise.
RECURSIVE LoadRun(_, _)
LoadRun(m, e) ==
    IF m.at \in {"returned", "raised"} THEN m ELSE LoadRun(LoadStep(m, e), e)

\* A call of load_model on manager m.
load_model(m, e) == LoadRun([m EXCEPT !.at = "call"], e)

-----------------------------------------------------------------------------
(* ModelManager.generate_with_timeout and utils.timeout.                   *)

\* The token cap and the deadlines (seconds) of generate_with_timeout, and the
\* length below which the generated text is "too short".
CpuTokenCap == 128
CpuTimeout == 600
GpuTimeout == 300
MinPersonaLength == 10

\* Configured max_new_tokens (256 is the default).
Budgets == {64, 128, 256}
\* Seconds the generation pipeline takes to answer.
Durations == {100, 450, 700}
\* Length of the generated text after the last "PROFILE:", stripped.
Lengths == {0, 9, 10, 40}

\* What self.generator(prompt, ...) does: raise, answer nothing usable, or a text.
Responses ==
    {[kind |-> "raise", len |-> 0], [kind |-> "empty", len |-> 0]}
        \cup {[kind |-> "text", len |-> n] : n \in Lengths}

\* One call: the platform (signal.SIGALRM exists or not), the calling thread, the
\* device, the configuration, and what the pipeline would do.
Invocations ==
    [sigalrm : BOOLEAN, main_thread : BOOLEAN, cuda : BOOLEAN,
     budget : Budgets, duration : Durations, response : Responses]

Min(a, b) == IF a <= b THEN a ELSE b

\* max_new_tokens without the cap on a CPU.
max_new_tokens_Uncapped(i) == i.budget

\* timeout_duration and max_new_tokens as generate_with_timeout sets them.
timeout_duration(i) == IF i.cuda THEN GpuTimeout ELSE CpuTimeout
max_new_tokens(i) == IF i.cuda THEN i.budget ELSE Min(i.budget, CpuTokenCap)

\* generate_with_timeout without the test of the response: an empty response is
\* taken for a text.
generate_with_timeout_AcceptsEmpty(i) ==
    LET none == [persona |-> None, length |-> 0, called |-> FALSE, timed_out |-> FALSE,
                 max_new_tokens |-> max_new_tokens(i),
                 deadline |-> timeout_duration(i),
                 num_beams |-> IF i.cuda THEN 0 ELSE 1]
    IN  IF i.sigalrm /\ ~i.main_thread
        THEN none
        ELSE IF i.sigalrm /\ i.duration > timeout_duration(i)
        THEN [none EXCEPT !.called = TRUE, !.timed_out = TRUE]
        ELSE IF i.response.kind = "raise"
        THEN [none EXCEPT !.called = TRUE]
        ELSE IF i.response.kind = "text" /\ i.response.len < MinPersonaLength
        THEN [none EXCEPT !.called = TRUE]
        ELSE [none EXCEPT !.called = TRUE, !.persona = "model",
                          !.length = i.response.len]

\* generate_with_timeout without the minimum length: any non-empty text is returned.
generate_with_timeout_AnyLength(i) ==
    LET none == [persona |-> None, length |-> 0, called |-> FALSE, timed_out |-> FALSE,
                 max_new_tokens |-> max_new_tokens(i),
                 deadline |-> timeout_duration(i),
                 num_beams |-> IF i.cuda THEN 0 ELSE 1]
    IN  IF i.sigalrm /\ ~i.main_thread
        THEN none
        ELSE IF i.sigalrm /\ i.duration > timeout_duration(i)
        THEN [none EXCEPT !.called = TRUE, !.timed_out = TRUE]
        ELSE IF i.response.kind # "text"
        THEN [none EXCEPT !.called = TRUE]
        ELSE IF i.response.len < 1
        THEN [none EXCEPT !.called = TRUE]
        ELSE [none EXCEPT !.called = TRUE, !.persona = "model",
                          !.length = i.response.len]

\* generate_with_timeout(prompt): persona is "model" when a text is returned and
\* None otherwise; called says whether self.generator was called at all; num_beams
\* is 0 when the parameter is not passed.
generate_with_timeout(i) ==
    LET none == [persona |-> None, length |-> 0, called |-> FALSE, timed_out |-> FALSE,
                 max_new_tokens |-> max_new_tokens(i),
                 deadline |-> timeout_duration(i),
                 num_beams |-> IF i.cuda THEN 0 ELSE 1]
    IN  IF i.sigalrm /\ ~i.main_thread
        THEN none   \* signal.signal raises ValueError off the main thread
        ELSE IF i.sigalrm /\ i.duration > timeout_duration(i)
        THEN [none EXCEPT !.called = TRUE, !.timed_out = TRUE]
        ELSE IF i.response.kind # "text"
        THEN [none EXCEPT !.called = TRUE]
        ELSE IF i.response.len < MinPersonaLength
        THEN [none EXCEPT !.called = TRUE]
        ELSE [none EXCEPT !.called = TRUE, !.persona = "model",
                          !.length = i.response.len]

\* The calls a job worker can make: it is never the main thread.
WorkerInvocations == {i \in Invocations : ~i.main_thread}

\* What generate_with_timeout can return to a job worker.
InvokeResults == {generate_with_timeout(i).persona : i \in WorkerInvocations}

-----------------------------------------------------------------------------
(* The analysis engine: utils.py and create_fallback_persona.              *)
(*                                                                         *)
(* A post is its subreddit and its score.  A comment is its subreddit, its *)
(* score, the length of its body and the sentiment words its body holds    *)
(* (" word " in " body ").  The sample bodies hold no word of the other    *)
(* word lists (enthusiastic, analytical, skeptical, MBTI), no "?", no "!"  *)
(* and no upper-case word.                                                 *)

MaxSample == 1         \* posts, and comments, in a behaviour record
CommentWindow == 100
StyleWindow == 20
BodyLength == 30

\* The first words of the two sentiment word lists, in list order.
positive_words == <<"good", "great">>
negative_words == <<"bad", "hate">>

Range(s) == {s[i] : i \in DOMAIN s}
Prefix(s, n) == SubSeq(s, 1, Min(n, Len(s)))

RECURSIVE Join(_, _)
\* sep.join(parts)
Join(parts, sep) ==
    IF parts = <<>> THEN ""
    ELSE IF Len(parts) = 1 THEN parts[1]
    ELSE parts[1] \o sep \o Join(Tail(parts), sep)

RECURSIVE Total(_)
\* sum(item['score'] for item in items)
Total(items) == IF items = <<>> THEN 0 ELSE items[1].score + Total(Tail(items))

\* An exact quotient num/den, den > 0.
Ratio(num, den) == [num |-> num, den |-> den]
Above(q, k) == q.num > k * q.den

\* d.get(key, default)
GetOr(d, key, default) == IF key \in DOMAIN d THEN d[key] ELSE default

RECURSIVE Distinct(_)
\* The keys of a dict filled in the order of s: each value once, first seen first.
Distinct(s) ==
    IF s = <<>> THEN <<>>
    ELSE LET d == Distinct(SubSeq(s, 1, Len(s) - 1))
             x == s[Len(s)]
         IN  IF x \in Range(d) THEN d ELSE Append(d, x)

Occurrences(s, x) == Cardinality({i \in DOMAIN s : s[i] = x})

get_top_subreddits(posts, comments) ==
    LET subs == [i \in 1..(Len(posts) + Len(comments)) |->
                    IF i <= Len(posts) THEN posts[i].subreddit
                    ELSE comments[i - Len(posts)].subreddit]
        keys == Distinct(subs)
        \* sorted(..., reverse=True) is stable: by count, then by insertion
        Before(i, j) == \/ Occurrences(subs, keys[i]) > Occurrences(subs, keys[j])
                        \/ /\ Occurrences(subs, keys[i]) = Occurrences(subs, keys[j])
                           /\ i < j
        Place(i) == 1 + Cardinality({j \in DOMAIN keys : Before(j, i)})
    IN  [k \in DOMAIN keys |-> keys[CHOOSE i \in DOMAIN keys : Place(i) = k]]

\* analyze_posting_patterns with the two limits of the ratio taken inclusive.
analyze_posting_patterns_Inclusive(posts, comments) ==
    LET total_posts == Len(posts)
        total_comments == Len(comments)
        total == total_posts + total_comments
    IN  IF total = 0 THEN [activity_level |-> "No activity"]
        ELSE [activity_level |->
                  "Active user with " \o ToString(total) \o " total interactions",
              activity_type |->
                  IF 10 * total_posts >= 7 * total
                  THEN "Content creator - prefers making posts over commenting"
                  ELSE IF 10 * total_posts >= 3 * total
                  THEN "Balanced user - mix of posts and comments"
                  ELSE "Commenter - prefers engaging in discussions",
              avg_post_score |->
                  IF posts # <<>> THEN Ratio(Total(posts), Len(posts)) ELSE Ratio(0, 1),
              avg_comment_score |->
                  IF comments # <<>> THEN Ratio(Total(comments), Len(comments))
                  ELSE Ratio(0, 1)]

analyze_posting_patterns(posts, comments) ==
    LET total_posts == Len(posts)
        total_comments == Len(comments)
        total == total_posts + total_comments
    IN  IF total = 0 THEN [activity_level |-> "No activity"]
        ELSE [activity_level |->
                  "Active user with " \o ToString(total) \o " total interactions",
              activity_type |->
                  IF 10 * total_posts > 7 * total
                  THEN "Content creator - prefers making posts over commenting"
                  ELSE IF 10 * total_posts > 3 * total
                  THEN "Balanced user - mix of posts and comments"
                  ELSE "Commenter - prefers engaging in discussions",
              avg_post_score |->
                  IF posts # <<>> THEN Ratio(Total(posts), Len(posts)) ELSE Ratio(0, 1),
              avg_comment_score |->
                  IF comments # <<>> THEN Ratio(Total(comments), Len(comments))
                  ELSE Ratio(0, 1)]

SentimentSummary_Inclusive(positive_count, negative_count) ==
    IF positive_count >= negative_count * 2
    THEN "Consistently positive and optimistic in communication"
    ELSE IF 5 * positive_count > 6 * negative_count
    THEN "Generally positive in communication with occasional criticism"
    ELSE IF negative_count >= positive_count * 2
    THEN "Predominantly critical or negative in commentary"
    ELSE IF 5 * negative_count > 6 * positive_count
    THEN "Tends toward critical perspectives with some positive elements"
    ELSE "Balanced emotional expression in comments"

\* The tone sentence without the tier of the mildly critical.
SentimentSummary_NoCriticalTier(positive_count, negative_count) ==
    IF positive_count > negative_count * 2
    THEN "Consistently positive and optimistic in communication"
    ELSE IF 5 * positive_count > 6 * negative_count
    THEN "Generally positive in communication with occasional criticism"
    ELSE IF negative_count > positive_count * 2
    THEN "Predominantly critical or negative in commentary"
    ELSE "Balanced emotional expression in comments"

\* The tone sentence chosen from the two counts.
SentimentSummary(positive_count, negative_count) ==
    IF positive_count > negative_count * 2
    THEN "Consistently positive and optimistic in communication"
    ELSE IF 5 * positive_count > 6 * negative_count
    THEN "Generally positive in communication with occasional criticism"
    ELSE IF negative_count > positive_count * 2
    THEN "Predominantly critical or negative in commentary"
    ELSE IF 5 * negative_count > 6 * positive_count
    THEN "Tends toward critical perspectives with some positive elements"
    ELSE "Balanced emotional expression in comments"

\* The iteration orders a set of str can have: the order follows the strings'
\* hashes, which the interpreter salts with a seed it draws when it starts.
Orders(words) == {o \in [DOMAIN words -> Range(words)] : Range(o) = Range(words)}
HashSeeds == [positive : Orders(positive_words), negative : Orders(negative_words)]

\* list(found) for a set of words, under the order the seed gives.
ListOf(found, order) ==
    LET Found(word) == word \in found
    IN  SelectSeq(order, Found)

RECURSIVE Hits(_, _)
\* The number of (comment, word) pairs with the word of the list in the comment.
Hits(comments, words) ==
    IF comments = <<>> THEN 0
    ELSE Cardinality(comments[1].words \cap Range(words)) + Hits(Tail(comments), words)

analyze_sentiment(comments, seed) ==
    IF comments = <<>>
    THEN [summary |-> "No comments to analyze sentiment", data |-> <<>>]
    ELSE
    LET window == Prefix(comments, CommentWindow)
        positive_count == Hits(window, positive_words)
        negative_count == Hits(window, negative_words)
        found_positive ==
            {w \in Range(positive_words) : \E i \in DOMAIN window : w \in window[i].words}
        found_negative ==
            {w \in Range(negative_words) : \E i \in DOMAIN window : w \in window[i].words}
        subs == Distinct([i \in DOMAIN window |-> window[i].subreddit])
        In(sub) == SelectSeq(window, LAMBDA c : c.subreddit = sub)
        Enough(sub) == Len(In(sub)) >= 3
        Balance(sub) == Hits(In(sub), positive_words) - Hits(In(sub), negative_words)
        kept == SelectSeq(subs, Enough)
        total_sentiment_words == positive_count + negative_count
    IN  [summary |-> SentimentSummary(positive_count, negative_count),
         data |->
           [positive_count |-> positive_count,
            negative_count |-> negative_count,
            positive_words |-> ListOf(found_positive, seed.positive),
            negative_words |-> ListOf(found_negative, seed.negative),
            sentiment_ratio |-> Ratio(positive_count - negative_count,
                                      Max(1, total_sentiment_words)),
            subreddit_sentiment |->
                [k \in DOMAIN kept |->
                    [subreddit |-> kept[k],
                     sentiment |-> IF 10 * Balance(kept[k]) > Len(In(kept[k]))
                                   THEN "positive"
                                   ELSE IF 10 * Balance(kept[k]) < 0 - Len(In(kept[k]))
                                   THEN "negative" ELSE "neutral",
                     score |-> Ratio(Balance(kept[k]), Max(1, Len(In(kept[k])))),
                     comments |-> Len(In(kept[k]))]],
            personality_traits |-> <<>>]]

\* The subreddit names of the samples; str.lower and the test "keyword in name"
\* on them.
Subreddits == {"gaming", "Gaming", "worldnews", "cats"}
Lower(name) == IF name = "Gaming" THEN "gaming" ELSE name
KeywordIn(keyword, name) ==
    \/ keyword = name
    \/ keyword = "news" /\ name = "worldnews"

interest_mapping ==
    << [keyword |-> "gaming", interest |-> "Video games and gaming culture"],
       [keyword |-> "technology", interest |-> "Technology and tech news"],
       [keyword |-> "programming", interest |-> "Software development and programming"],
       [keyword |-> "politics", interest |-> "Political discussions and current events"],
       [keyword |-> "news", interest |-> "Current events and news"],
       [keyword |-> "sports", interest |-> "Sports and athletics"],
       [keyword |-> "music", interest |-> "Music and musical discussions"],
       [keyword |-> "movies", interest |-> "Films and cinema"],
       [keyword |-> "books", interest |-> "Literature and reading"],
       [keyword |-> "science", interest |-> "Scientific topics and research"],
       [keyword |-> "askreddit", interest |-> "General discussions and Q&A"],
       [keyword |-> "funny", interest |-> "Humor and entertainment"],
       [keyword |-> "pics", interest |-> "Photography and visual content"],
       [keyword |-> "worldnews", interest |-> "International news and events"],
       [keyword |-> "food", interest |-> "Cooking, recipes, and food culture"] >>

extract_interests(top_subreddits) ==
    LET first == Prefix(top_subreddits, 5)
        Matches(sub) == {k \in DOMAIN interest_mapping :
                            KeywordIn(interest_mapping[k].keyword, Lower(sub))}
        InterestOf(sub) ==
            IF Matches(sub) = {} THEN "Content related to r/" \o sub
            ELSE interest_mapping[CHOOSE k \in Matches(sub) :
                                     \A j \in Matches(sub) : k <= j].interest
        interests == [i \in DOMAIN first |-> InterestOf(first[i])]
    IN  IF interests # <<>> THEN "\n- " \o Join(interests, "\n- ")
        ELSE "Interests could not be determined from subreddit activity"

RECURSIVE TotalLength(_)
TotalLength(comments) ==
    IF comments = <<>> THEN 0 ELSE comments[1].length + TotalLength(Tail(comments))

analyze_communication_style(comments) ==
    IF comments = <<>> THEN "No comments available for communication analysis"
    ELSE LET sample == Prefix(comments, StyleWindow)
             avg_length == Ratio(TotalLength(sample), Len(sample))
         IN  (IF Above(avg_length, 200)
              THEN "Tends to write detailed, lengthy responses"
              ELSE IF avg_length.num < 50 * avg_length.den
              THEN "Prefers brief, concise communication"
              ELSE "Uses moderate-length responses") \o "."

describe_engagement_patterns_Inclusive(patterns) ==
    LET avg_post_score == GetOr(patterns, "avg_post_score", Ratio(0, 1))
        avg_comment_score == GetOr(patterns, "avg_comment_score", Ratio(0, 1))
    IN  Join(<< GetOr(patterns, "activity_level", "Unknown activity level"),
                GetOr(patterns, "activity_type", "Unknown activity type"),
                IF avg_post_score.num >= 10 * avg_post_score.den
                THEN "Posts tend to receive good engagement from the community"
                ELSE IF Above(avg_post_score, 1)
                THEN "Posts receive moderate community engagement"
                ELSE "Posts receive limited community engagement",
                IF Above(avg_comment_score, 5)
                THEN "Comments are generally well-received"
                ELSE IF Above(avg_comment_score, 1)
                THEN "Comments receive moderate appreciation"
                ELSE "Comments receive limited appreciation" >>, ". ") \o "."

describe_engagement_patterns(patterns) ==
    LET avg_post_score == GetOr(patterns, "avg_post_score", Ratio(0, 1))
        avg_comment_score == GetOr(patterns, "avg_comment_score", Ratio(0, 1))
    IN  Join(<< GetOr(patterns, "activity_level", "Unknown activity level"),
                GetOr(patterns, "activity_type", "Unknown activity type"),
                IF Above(avg_post_score, 10)
                THEN "Posts tend to receive good engagement from the community"
                ELSE IF Above(avg_post_score, 1)
                THEN "Posts receive moderate community engagement"
                ELSE "Posts receive limited community engagement",
                IF Above(avg_comment_score, 5)
                THEN "Comments are generally well-received"
                ELSE IF Above(avg_comment_score, 1)
                THEN "Comments receive moderate appreciation"
                ELSE "Comments receive limited appreciation" >>, ". ") \o "."

\* round(num / den): to the nearest integer, a tie to the even one.
Round(num, den) ==
    LET q == num \div den
        r == num % den
    IN  IF 2 * r > den \/ (2 * r = den /\ q % 2 = 1) THEN q + 1 ELSE q

format_sentiment_analysis(sentiment_data) ==
    IF sentiment_data.data = <<>> THEN sentiment_data.summary
    ELSE
    LET data == sentiment_data.data
        total_sentiment_words == data.positive_count + data.negative_count
        positive_percent == Round(100 * data.positive_count, total_sentiment_words)
        Positive(s) == s.sentiment = "positive"
        positive_subs == SelectSeq(data.subreddit_sentiment, Positive)
        shown == Prefix(positive_subs, 3)
    IN  Join(<<sentiment_data.summary>>
             \o (IF total_sentiment_words > 0
                 THEN << "Sentiment breakdown: " \o ToString(positive_percent)
                         \o "% positive, " \o ToString(100 - positive_percent)
                         \o "% negative sentiment words found" >>
                 ELSE <<>>)
             \o (IF data.positive_words # <<>>
                 THEN << "Frequently uses positive words: "
                         \o Join(Prefix(data.positive_words, 5), ", ") >>
                 ELSE <<>>)
             \o (IF data.personality_traits # <<>>
                 THEN << "Communication traits: "
                         \o Join(data.personality_traits, ", ") >>
                 ELSE <<>>)
             \o (IF positive_subs # <<>>
                 THEN << "Most positive in: "
                         \o Join([k \in DOMAIN shown |-> "r/" \o shown[k].subreddit],
                                 ", ") >>
                 ELSE <<>>),
             "\n")

\* The f-string of create_fallback_persona around its six computed parts.
FallbackText(username, posts, comments, active, interests, style, engagement, mood) ==
    "REDDIT USER PERSONA: " \o username
    \o "\n\nACTIVITY OVERVIEW:\n- Posts: " \o ToString(Len(posts))
    \o "\n- Comments: " \o ToString(Len(comments))
    \o "\n- Most active in: " \o active
    \o "\n\nINTERESTS:\nBased on subreddit activity, this user is interested in:\n"
    \o interests
    \o "\n\nCOMMUNICATION STYLE:\n" \o style
    \o "\n\nENGAGEMENT PATTERNS:\n" \o engagement
    \o "\n\nSENTIMENT ANALYSIS:\n" \o mood
    \o "\n\n"

create_fallback_persona(username, posts, comments, seed) ==
    LET top_subreddits == get_top_subreddits(posts, comments)
        posting_patterns == analyze_posting_patterns(posts, comments)
        sentiment_data == analyze_sentiment(comments, seed)
    IN  [persona |->
             FallbackText(username, posts, comments,
                          Join(Prefix(top_subreddits, 3), ", "),
                          extract_interests(top_subreddits),
                          analyze_communication_style(comments),
                          describe_engagement_patterns(posting_patterns),
                          format_sentiment_analysis(sentiment_data)),
         sentiment_data |-> sentiment_data]

\* The behaviour records of the samples.
PostScores == {1, 2, 10, 11}
CommentScores == {1, 2, 5, 6}
Posts == [subreddit : Subreddits, score : PostScores]
ScoredComments ==
    [subreddit : {"gaming", "cats"}, score : CommentScores, length : {BodyLength},
     words : {{}}]
WordedComments ==
    [subreddit : {"gaming"}, score : {1}, length : {BodyLength},
     words : SUBSET (Range(positive_words) \cup Range(negative_words))]
UpTo(S, n) == UNION {[1..k -> S] : k \in 0..n}
GamingExample == [i \in 1..5 |-> [subreddit |-> "gaming", score |-> i]]
SampleUser == "kojied"

\* A text the model generated, long enough to be kept.
GeneratedText == "Curious, friendly and detail-oriented Reddit user."

\* generate_persona with the model path returning no sentiment profile.
generate_persona_DropsProfile(username, posts, comments, seed, r) ==
    LET sentiment_data == analyze_sentiment(comments, seed)
    IN  IF r # None
        THEN [persona |-> GeneratedText,
              sentiment_data |-> [summary |-> "", data |-> <<>>]]
        ELSE create_fallback_persona(username, posts, comments, seed)

\* generate_persona: the sentiment analysis, then the persona of the model (r is
\* what generate_with_timeout returned) or, without one, the fallback persona with
\* the sentiment data create_fallback_persona returns.
generate_persona(username, posts, comments, seed, r) ==
    LET sentiment_data == analyze_sentiment(comments, seed)
    IN  IF r # None
        THEN [persona |-> GeneratedText, sentiment_data |-> sentiment_data]
        ELSE create_fallback_persona(username, posts, comments, seed)

\* save_persona: the 'sentiment_data' entry of the JSON file it writes.
save_persona(sentiment_data) == IF sentiment_data # <<>> THEN sentiment_data ELSE <<>>

-----------------------------------------------------------------------------
(* analyze_sentiment statement by statement: the counters of its loop over *)
(* the first 100 comments, its samples, its traits and its MBTI summary.   *)
(* A comment is a subreddit, a score, the length of its lowered body and   *)
(* the listed words its body holds.  The words found are kept as the sets  *)
(* the loop fills.                                                         *)

MaxHits == 6           \* comments of one kind in a tone or axis sample
MaxActivity == 10      \* posts, and comments, in an activity sample
SampleCap == 3
SampleMinLength == 20
SampleMaxLength == 200

\* Words of the other word lists of analyze_sentiment ('fact' is in three lists).
enthusiastic_words == {"incredible"}
analytical_words == {"think", "fact"}
skeptical_words == {"doubt"}
extrovert_words == {"party"}
introvert_words == {"alone"}
sensing_words == {"fact", "detail"}
intuition_words == {"idea"}
thinking_words == {"logic", "fact"}
feeling_words == {"feel"}
judging_words == {"plan"}
perceiving_words == {"maybe"}

\* sum(1 for word in words if f" {word} " in f" {body} ")
WordHits(comment, words) == Cardinality(comment.words \cap words)

\* The loop's variables before the first comment.
Counters0 ==
    [positive_count |-> 0, negative_count |-> 0, enthusiastic_count |-> 0,
     analytical_count |-> 0, skeptical_count |-> 0,
     extrovert_count |-> 0, introvert_count |-> 0, sensing_count |-> 0,
     intuition_count |-> 0, thinking_count |-> 0, feeling_count |-> 0,
     judging_count |-> 0, perceiving_count |-> 0,
     found_positive |-> {}, found_negative |-> {},
     subreddit_sentiment |-> <<>>,
     sentiment_samples |-> [positive |-> <<>>, negative |-> <<>>, neutral |-> <<>>]]

\* The loop body with the samples kept whatever the length of the body.
LoopBody_AnyLength(acc, comment) ==
    LET comment_positive == WordHits(comment, Range(positive_words))
        comment_negative == WordHits(comment, Range(negative_words))
        sub == comment.subreddit
        counts == IF sub \in DOMAIN acc.subreddit_sentiment
                  THEN acc.subreddit_sentiment[sub]
                  ELSE [positive |-> 0, negative |-> 0, total |-> 0]
        s == acc.sentiment_samples
    IN  [acc EXCEPT
            !.positive_count = @ + comment_positive,
            !.negative_count = @ + comment_negative,
            !.found_positive = @ \cup (comment.words \cap Range(positive_words)),
            !.found_negative = @ \cup (comment.words \cap Range(negative_words)),
            !.enthusiastic_count = @ + WordHits(comment, enthusiastic_words),
            !.analytical_count = @ + WordHits(comment, analytical_words),
            !.skeptical_count = @ + WordHits(comment, skeptical_words),
            !.extrovert_count = @ + WordHits(comment, extrovert_words),
            !.introvert_count = @ + WordHits(comment, introvert_words),
            !.sensing_count = @ + WordHits(comment, sensing_words),
            !.intuition_count = @ + WordHits(comment, intuition_words),
            !.thinking_count = @ + WordHits(comment, thinking_words),
            !.feeling_count = @ + WordHits(comment, feeling_words),
            !.judging_count = @ + WordHits(comment, judging_words),
            !.perceiving_count = @ + WordHits(comment, perceiving_words),
            !.subreddit_sentiment =
                (sub :> [positive |-> counts.positive + comment_positive,
                         negative |-> counts.negative + comment_negative,
                         total |-> counts.total + 1]) @@ @,
            !.sentiment_samples =
                IF comment_positive > 0 /\ comment_negative = 0
                   /\ Len(s.positive) < SampleCap
                THEN [s EXCEPT !.positive = Append(@, comment)]
                ELSE IF comment_negative > 0 /\ comment_positive = 0
                        /\ Len(s.negative) < SampleCap
                THEN [s EXCEPT !.negative = Append(@, comment)]
                ELSE IF comment_positive = 0 /\ comment_negative = 0
                        /\ Len(s.neutral) < SampleCap
                THEN [s EXCEPT !.neutral = Append(@, comment)]
                ELSE s]

\* One pass of the loop body: the counts of the comment, the found words, the
\* trait and MBTI counters, the counters of the comment's subreddit, the samples.
LoopBody(acc, comment) ==
    LET comment_positive == WordHits(comment, Range(positive_words))
        comment_negative == WordHits(comment, Range(negative_words))
        sub == comment.subreddit
        counts == IF sub \in DOMAIN acc.subreddit_sentiment
                  THEN acc.subreddit_sentiment[sub]
                  ELSE [positive |-> 0, negative |-> 0, total |-> 0]
        s == acc.sentiment_samples
    IN  [acc EXCEPT
            !.positive_count = @ + comment_positive,
            !.negative_count = @ + comment_negative,
            !.found_positive = @ \cup (comment.words \cap Range(positive_words)),
            !.found_negative = @ \cup (comment.words \cap Range(negative_words)),
            !.enthusiastic_count = @ + WordHits(comment, enthusiastic_words),
            !.analytical_count = @ + WordHits(comment, analytical_words),
            !.skeptical_count = @ + WordHits(comment, skeptical_words),
            !.extrovert_count = @ + WordHits(comment, extrovert_words),
            !.introvert_count = @ + WordHits(comment, introvert_words),
            !.sensing_count = @ + WordHits(comment, sensing_words),
            !.intuition_count = @ + WordHits(comment, intuition_words),
            !.thinking_count = @ + WordHits(comment, thinking_words),
            !.feeling_count = @ + WordHits(comment, feeling_words),
            !.judging_count = @ + WordHits(comment, judging_words),
            !.perceiving_count = @ + WordHits(comment, perceiving_words),
            !.subreddit_sentiment =
                (sub :> [positive |-> counts.positive + comment_positive,
                         negative |-> counts.negative + comment_negative,
                         total |-> counts.total + 1]) @@ @,
            !.sentiment_samples =
                IF ~(comment.length > SampleMinLength /\ comment.length < SampleMaxLength)
                THEN s
                ELSE IF comment_positive > 0 /\ comment_negative = 0
                        /\ Len(s.positive) < SampleCap
                THEN [s EXCEPT !.positive = Append(@, comment)]
                ELSE IF comment_negative > 0 /\ comment_positive = 0
                        /\ Len(s.negative) < SampleCap
                THEN [s EXCEPT !.negative = Append(@, comment)]
                ELSE IF comment_positive = 0 /\ comment_negative = 0
                        /\ Len(s.neutral) < SampleCap
                THEN [s EXCEPT !.neutral = Append(@, comment)]
                ELSE s]

RECURSIVE Loop(_, _, _, _)
\* The loop's variables, acc before the pass over comments[from], after the pass
\* over comments[to]: the passes are split in two halves, run one after the other
\* (the test of the first half's count has the first half evaluated first).
Loop(acc, comments, from, to) ==
    IF from > to THEN acc
    ELSE IF from = to THEN LoopBody(acc, comments[from])
    ELSE LET mid == (from + to) \div 2
             half == Loop(acc, comments, from, mid)
         IN  IF half.positive_count >= 0
             THEN Loop(half, comments, mid + 1, to)
             ELSE half

\* The loop run over the whole list.
Counters_WholeList(comments) == Loop(Counters0, comments, 1, Len(comments))

\* The loop's variables when the loop "for comment in comments[:100]" has ended.
Counters(comments) == Loop(Counters0, comments, 1, Min(Len(comments), CommentWindow))

\* The label of an axis with the two limits taken inclusive.
AxisLabel_Inclusive(a, b, first, second, balanced) ==
    IF 5 * a >= 3 * Max(1, a + b) THEN first
    ELSE IF 5 * a <= 2 * Max(1, a + b) THEN second
    ELSE balanced

\* An MBTI label from the two counts of its axis: the ratio a / max(1, a + b)
\* above 0.6, below 0.4, or neither.
AxisLabel(a, b, first, second, balanced) ==
    IF 5 * a > 3 * Max(1, a + b) THEN first
    ELSE IF 5 * a < 2 * Max(1, a + b) THEN second
    ELSE balanced

\* personality_traits: each count against its share of len(comments).
Traits(c, comments) ==
    (IF 10 * c.enthusiastic_count > Len(comments) THEN <<"enthusiastic">> ELSE <<>>)
    \o (IF 20 * c.analytical_count > 3 * Len(comments) THEN <<"analytical">> ELSE <<>>)
    \o (IF 10 * c.skeptical_count > Len(comments) THEN <<"skeptical">> ELSE <<>>)

\* What analyze_sentiment returns, from the loop's variables.
Compile(c, comments) ==
    LET kept == {sub \in DOMAIN c.subreddit_sentiment :
                    c.subreddit_sentiment[sub].total >= 3}
        Balance(sub) ==
            c.subreddit_sentiment[sub].positive - c.subreddit_sentiment[sub].negative
        Comments(sub) == c.subreddit_sentiment[sub].total
        personality_traits == Traits(c, comments)
        tone == SentimentSummary(c.positive_count, c.negative_count)
    IN  [summary |->
             IF personality_traits # <<>>
             THEN tone \o ". Displays " \o Join(personality_traits, ", ")
                  \o " tendencies."
             ELSE tone,
         data |->
           [positive_count |-> c.positive_count,
            negative_count |-> c.negative_count,
            positive_words |-> c.found_positive,
            negative_words |-> c.found_negative,
            sentiment_ratio |->
                Ratio(c.positive_count - c.negative_count,
                      Max(1, c.positive_count + c.negative_count)),
            subreddit_sentiment |->
                [sub \in kept |->
                    [sentiment |-> IF 10 * Balance(sub) > Comments(sub) THEN "positive"
                                   ELSE IF 10 * Balance(sub) < 0 - Comments(sub)
                                   THEN "negative" ELSE "neutral",
                     score |-> Ratio(Balance(sub), Max(1, Comments(sub))),
                     comments |-> Comments(sub)]],
            samples |-> c.sentiment_samples,
            personality_traits |-> personality_traits,
            mbti |->
              [extrovert_count |-> c.extrovert_count,
               introvert_count |-> c.introvert_count,
               extrovert_ratio |->
                   Ratio(c.extrovert_count,
                         Max(1, c.extrovert_count + c.introvert_count)),
               sensing_count |-> c.sensing_count,
               intuition_count |-> c.intuition_count,
               sensing_ratio |->
                   Ratio(c.sensing_count, Max(1, c.sensing_count + c.intuition_count)),
               thinking_count |-> c.thinking_count,
               feeling_count |-> c.feeling_count,
               thinking_ratio |->
                   Ratio(c.thinking_count, Max(1, c.thinking_count + c.feeling_count)),
               judging_count |-> c.judging_count,
               perceiving_count |-> c.perceiving_count,
               judging_ratio |->
                   Ratio(c.judging_count,
                         Max(1, c.judging_count + c.perceiving_count)),
               summary |->
                   Join(<<AxisLabel(c.extrovert_count, c.introvert_count,
                                    "Extrovert", "Introvert", "Balanced E/I"),
                          AxisLabel(c.sensing_count, c.intuition_count,
                                    "Sensing", "Intuition", "Balanced S/N"),
                          AxisLabel(c.thinking_count, c.feeling_count,
                                    "Thinking", "Feeling", "Balanced T/F"),
                          AxisLabel(c.judging_count, c.perceiving_count,
                                    "Judging", "Perceiving", "Balanced J/P")>>,
                        " / ")]]]

\* analyze_sentiment(comments) with every field of its result.
SentimentProfile(comments) ==
    IF comments = <<>>
    THEN [summary |-> "No comments to analyze sentiment", data |-> <<>>]
    ELSE Compile(Counters(comments), comments)

\* n times the same item.
Repeat(item, n) == [i \in 1..n |-> item]

\* A comment of the samples below.
Comment(subreddit, length, words) ==
    [subreddit |-> subreddit, score |-> 1, length |-> length, words |-> words]
Neutral == Comment("gaming", BodyLength, {})

\* Tone samples: one neutral comment, then comments with "good", then with "bad".
ToneSamples ==
    {Repeat(Neutral, 1) \o Repeat(Comment("gaming", BodyLength, {"good"}), p)
         \o Repeat(Comment("cats", BodyLength, {"bad"}), n) :
        p \in 0..MaxHits, n \in 0..MaxHits}

\* Axis samples: comments with a word of one pole, then with one of the other.
AxisWords ==
    {<<"party", "alone">>, <<"detail", "idea">>, <<"fact", "idea">>,
     <<"logic", "feel">>, <<"fact", "feel">>, <<"plan", "maybe">>}
AxisSamples ==
    {Repeat(Comment("gaming", BodyLength, {pair[1]}), a)
         \o Repeat(Comment("gaming", BodyLength, {pair[2]}), b) :
        pair \in AxisWords, a \in 0..MaxHits, b \in 1..MaxHits}

\* Quote samples: bodies at and around the two length limits, with a positive
\* word, a negative word, both or none.
QuoteComments ==
    {Comment("gaming", length, words) :
        length \in {SampleMinLength, SampleMinLength + 1, SampleMaxLength - 1,
                    SampleMaxLength},
        words \in {{}, {"good"}, {"bad"}, {"good", "bad"}}}
QuoteSamples ==
    {Repeat(c, n) \o d : c \in QuoteComments, n \in 1..(SampleCap + 1),
                         d \in UpTo(QuoteComments, 1)}

\* Window samples: a list that fills the window or ends one short of it, ending in
\* comments with a trait word, and what follows the window.
TraitComments ==
    {Comment("cats", BodyLength, {"incredible", "good"}),
     Comment("gaming", BodyLength, {"think"})}
Tails == {Repeat(c, n) : c \in TraitComments \cup {Neutral}, n \in {0, 1, 2, 10}}
WindowSamples ==
    {Repeat(Neutral, size - n) \o Repeat(c, n) \o tail :
        size \in {CommentWindow - 1, CommentWindow}, n \in {0, 11, 16},
        c \in TraitComments, tail \in Tails}

\* Activity samples: posts and neutral comments.
ActivityPosts == {Repeat([subreddit |-> "gaming", score |-> 1], n) : n \in 0..MaxActivity}
ActivityComments == {Repeat(Neutral, n) : n \in 0..MaxActivity}

\* Nothing analysed yet.  counters and profile are those of comments once ran is
\* true, patterns those of posts and comments once measured is true, next_profile
\* that of next_comments once again is true.
NoScan ==
    [posts |-> <<>>, comments |-> <<>>, ran |-> FALSE, counters |-> Counters0,
     profile |-> [summary |-> "", data |-> <<>>],
     measured |-> FALSE, patterns |-> [activity_level |-> ""],
     again |-> FALSE, next_comments |-> <<>>,
     next_profile |-> [summary |-> "", data |-> <<>>]]

NoRun == [persona |-> "", sentiment_data |-> [summary |-> "", data |-> <<>>]]
NoJob == [path |-> "none", seed |-> CHOOSE h \in HashSeeds : TRUE,
          persona |-> "", sentiment_data |-> NoRun.sentiment_data]
\* range(21, 80, 10) of progress_updater.
UpdaterFirst == 21
UpdaterStop == 80
UpdaterStep == 10

\* The progress_updater thread of a job not yet at generate_persona's thread start:
\* i is the progress of its next pass, has_flag says that the PersonaGenerator has
\* the attribute _generation_complete and complete is the attribute's value; late
\* counts its passes, and late_writes its reports, after generate_with_timeout
\* returned.
NoUpdater ==
    [started |-> FALSE, i |-> UpdaterFirst, has_flag |-> FALSE, complete |-> FALSE,
     late |-> 0, late_writes |-> 0]

NoEngine == [posts |-> <<>>, comments |-> <<>>, ran |-> FALSE,
             first |-> NoRun, last |-> NoRun, job |-> NoJob]

-----------------------------------------------------------------------------
(* The request handlers of web_interface.py.                               *)

\* Blocked with the stale test reduced to the completed flag: the two tests of the
\* stage are missing.
Blocked_CompletedFlagOnly ==
    /\ generation_lock
    /\ ~current_status.completed

\* generate(): the lock is held and the status does not say the job is over.
Blocked ==
    /\ generation_lock
    /\ ~(\/ current_status.completed
         \/ current_status.stage = "error"
         \/ current_status.stage = "completed")

\* generate(): the update that follows the stale-lock warning.
StaleCleared(s) ==
    [s EXCEPT !.stage = "idle", !.progress = 0,
              !.message = "Ready (stale lock cleared)",
              !.error = None, !.completed = FALSE]

\* generate(): "Reset status for new generation".
Starting(s) ==
    [s EXCEPT !.stage = "starting", !.progress = 0, !.message = "Initializing...",
              !.error = None, !.completed = FALSE]

\* The thread generate() starts is the next job of the run.
NextJob(w) == pc[w] = "unborn" /\ \A v \in Jobs : v < w => pc[v] # "unborn"

\* Reject that also force-clears the lock, as the stale branch does.
Reject_ClearsLock ==
    /\ generation_lock
    /\ ~(\/ current_status.completed
         \/ current_status.stage = "error"
         \/ current_status.stage = "completed")
    /\ resp' = "busy"
    /\ stale_warning' = FALSE
    /\ generation_lock' = FALSE
    /\ UNCHANGED current_status
    /\ UNCHANGED jobVars

\* generate() with a username, answered 409.
Reject ==
    /\ Blocked
    /\ resp' = "busy"
    /\ stale_warning' = FALSE
    /\ UNCHANGED <<current_status, generation_lock>>
    /\ UNCHANGED jobVars

\* generate() with a username, answered 'started': job w's worker thread is started.
Admit(w) ==
    /\ ~Blocked
    /\ NextJob(w)
    /\ stale_warning' = generation_lock
    /\ generation_lock' = FALSE
    /\ current_status' = Starting(IF generation_lock
                                  THEN StaleCleared(current_status)
                                  ELSE current_status)
    /\ resp' = "started"
    /\ pc' = [pc EXCEPT ![w] = "start"]
    /\ rep' = [rep EXCEPT ![w] = Report("starting", 0)]
    /\ hi' = [hi EXCEPT ![w] = Rank("starting")]
    /\ UNCHANGED <<exc, batches, persona>>

\* generate() with a username: admitted or rejected.
generate ==
    /\ \/ Reject
       \/ \E w \in Jobs : Admit(w)
    /\ UNCHANGED mgrVars
    /\ UNCHANGED obsVars

\* generate() without a usable username: 400 for an empty one, and for a request
\* whose body raises (no JSON, no string) the except branch, which replaces the status.
generate_invalid ==
    /\ \/ /\ resp' = "bad_request"
          /\ UNCHANGED current_status
       \/ /\ resp' = "failed"
          /\ current_status' =
                Status("error", 0, "Failed to start: bad request", "bad request", FALSE, 0)
    /\ stale_warning' = FALSE
    /\ UNCHANGED generation_lock
    /\ UNCHANGED jobVars
    /\ UNCHANGED mgrVars
    /\ UNCHANGED obsVars

\* The dict reset_generation() binds current_status to.
ResetStatus == Status("idle", 0, "Ready (manually reset)", None, FALSE, 0)

\* reset_generation() updating the dict in place, as generate() does, instead of
\* binding a new one: the output_file key survives.
reset_generation_InPlace ==
    /\ current_status' = [current_status EXCEPT !.stage = "idle", !.progress = 0,
                              !.message = "Ready (manually reset)",
                              !.error = None, !.completed = FALSE]
    /\ generation_lock' = FALSE
    /\ resp' = "reset"
    /\ stale_warning' = FALSE
    /\ UNCHANGED jobVars
    /\ UNCHANGED mgrVars
    /\ UNCHANGED obsVars

\* reset_generation() that also cancels the workers: every started worker is ended.
reset_generation_StopsWorkers ==
    /\ current_status' = ResetStatus
    /\ generation_lock' = FALSE
    /\ resp' = "reset"
    /\ stale_warning' = FALSE
    /\ pc' = [w \in Jobs |-> IF pc[w] = "unborn" THEN "unborn" ELSE "done"]
    /\ UNCHANGED <<exc, batches, persona, rep, hi>>
    /\ UNCHANGED mgrVars
    /\ UNCHANGED obsVars

\* reset_generation()
reset_generation ==
    /\ current_status' = ResetStatus
    /\ generation_lock' = FALSE
    /\ resp' = "reset"
    /\ stale_warning' = FALSE
    /\ UNCHANGED jobVars
    /\ UNCHANGED mgrVars
    /\ UNCHANGED obsVars

-----------------------------------------------------------------------------
(* The job worker: run_generation() and the pipeline it drives.            *)

\* A progress report of job w through web_progress_callback, and the statement
\* the worker goes on to.
Advance(w, stage, progress, message, next) ==
    /\ current_status' = web_progress_callback(current_status, stage, progress, message)
    /\ rep' = [rep EXCEPT ![w] = Report(stage, progress)]
    /\ hi' = [hi EXCEPT ![w] = Max(@, Rank(stage))]
    /\ pc' = [pc EXCEPT ![w] = next]

Site(stage, progress, message, next) ==
    [stage |-> stage, progress |-> progress, message |-> message, next |-> next]

\* generate_full_persona: the reports that follow one another unconditionally.
OrchestratorSites ==
    [init50  |-> Site("initializing", 50, "Loading AI model...", "load"),
     fetch0  |-> Site("fetching_posts", 0, "Starting to fetch user posts...", "scr42"),
     prep50  |-> Site("preparing_data", 50, "Found posts and comments", "prep100"),
     prep100 |-> Site("preparing_data", 100, "Data preparation complete", "gen0"),
     gen0    |-> Site("generating_persona", 0, "Starting AI persona generation...", "as0"),
     sav0    |-> Site("saving_results", 0, "Saving persona to file...", "fsav0"),
     sav100  |-> Site("saving_results", 100, "Results saved successfully", "fin0"),
     fin0    |-> Site("finalizing", 0, "Finalizing generation...", "fin100"),
     fin100  |-> Site("finalizing", 100, "Generation complete!", "complete")]

\* scrape_user: its first report.
ScraperSites ==
    [scr42 |-> Site("fetching_posts", 0, "Starting to scrape user", "scr56")]

\* generate_persona: the reports up to the model invocation, and the last report
\* of the model path.
PersonaSites ==
    [as0    |-> Site("analyzing_sentiment", 0, "Starting sentiment analysis...", "as100"),
     as100  |-> Site("analyzing_sentiment", 100, "Sentiment analysis complete", "pprep0"),
     pprep0 |-> Site("preparing_data", 0, "Preparing data for persona generation...", "pgen0"),
     pgen0  |-> Site("generating_persona", 0, "Creating persona prompt...", "pgen20"),
     pgen20 |-> Site("generating_persona", 20,
                   "Starting AI generation (this may take 2-5 minutes on CPU)...", "invoke"),
     gp100a |-> Site("generating_persona", 100, "Persona generation complete!", "sav0")]

\* save_persona: its first report.
FileSites ==
    [fsav0 |-> Site("saving", 0, "Saving results...", "fsav100")]

Sites == OrchestratorSites @@ ScraperSites @@ PersonaSites @@ FileSites

\* A report that follows the previous one unconditionally.
Step(w) ==
    /\ pc[w] \in DOMAIN Sites
    /\ LET s == Sites[pc[w]]
       IN  Advance(w, s.stage, s.progress, s.message, s.next)
    /\ UNCHANGED <<generation_lock, exc, batches, persona>>

\* generate_full_persona's except branch: report the error stage, then re-raise e.
Raise(w, e) ==
    /\ Advance(w, "error", 0, "Generation failed: " \o e, "except")
    /\ exc' = [exc EXCEPT ![w] = e]

\* run_generation: "generation_lock = True"
AcquireLock(w) ==
    /\ pc[w] = "start"
    /\ generation_lock' = TRUE
    /\ pc' = [pc EXCEPT ![w] = "construct"]
    /\ UNCHANGED <<current_status, exc, batches, persona, rep, hi>>

\* ExceptUpdate recording the message shown to the user instead of str(e).
ExceptUpdate_Prefixed(s, e) ==
    [s EXCEPT !.error = "Error: " \o e, !.stage = "error", !.progress = 0,
              !.message = "Error: " \o e, !.completed = FALSE]

\* run_generation's except branch
ExceptUpdate(s, e) ==
    [s EXCEPT !.error = e, !.stage = "error", !.progress = 0,
              !.message = "Error: " \o e, !.completed = FALSE]

\* RedditPersonaGenerator() and the first report of generate_full_persona; a
\* constructor that raises (no config, no Reddit client) lands in run_generation's
\* except branch.
Construct(w) ==
    /\ pc[w] = "construct"
    /\ \/ /\ Advance(w, "initializing", 0, "Setting up generation environment...", "init50")
          /\ UNCHANGED exc
       \/ /\ current_status' = ExceptUpdate(current_status, "construction failed")
          /\ exc' = [exc EXCEPT ![w] = "construction failed"]
          /\ rep' = [rep EXCEPT ![w] = Report("error", 0)]
          /\ hi' = [hi EXCEPT ![w] = Max(@, Rank("error"))]
          /\ pc' = [pc EXCEPT ![w] = "finally"]
    /\ UNCHANGED <<generation_lock, batches, persona>>

\* str() of the RuntimeError load_model raises.
NoModelMessage ==
    "No suitable model could be loaded. Please check your internet connection and try again."

\* How load_model can end on a new manager, over all the ways the candidates can fail.
LoadResults == {load_model(NewManager, e).at : e \in Envs}

\* generate_full_persona: load_model() on the job's new manager (its reports go to
\* reddit_persona_generator.current_status, not to the web status), then the report
\* "Initialization complete".
LoadModel(w) ==
    /\ pc[w] = "load"
    /\ \E at \in LoadResults :
          IF at = "raised"
          THEN Raise(w, NoModelMessage)
          ELSE /\ Advance(w, "initializing", 100, "Initialization complete", "fetch0")
               /\ UNCHANGED exc
    /\ UNCHANGED <<generation_lock, batches, persona>>

\* max_posts and max_comments of the default configuration, and the batch sizes.
MaxPosts == 100
MaxComments == 200
PostBatch == 10
CommentBatch == 20

\* scrape_user: the user check, then "Starting to fetch user posts...".
UserCheck(w) ==
    /\ pc[w] = "scr56"
    /\ \/ /\ Advance(w, "fetching_posts", 0, "Starting to fetch user posts...", "posts")
          /\ UNCHANGED exc
       \/ Raise(w, "User not found or suspended")
    /\ batches' = [batches EXCEPT ![w] = 0]
    /\ UNCHANGED <<generation_lock, persona>>

\* scrape_user: the posts loop, one report per full batch, then the first report
\* of the comments loop; the listing may raise.
PostsLoop(w) ==
    /\ pc[w] = "posts"
    /\ \/ /\ batches[w] < MaxBatches
          /\ (batches[w] + 1) * PostBatch <= MaxPosts
          /\ Advance(w, "fetching_posts",
                     ((batches[w] + 1) * PostBatch * 100) \div MaxPosts,
                     "Processed posts...", "posts")
          /\ batches' = [batches EXCEPT ![w] = @ + 1]
          /\ UNCHANGED exc
       \/ /\ Advance(w, "fetching_comments", 0, "Starting to fetch user comments...",
                     "comments")
          /\ batches' = [batches EXCEPT ![w] = 0]
          /\ UNCHANGED exc
       \/ /\ Raise(w, "fetch failed")
          /\ batches' = [batches EXCEPT ![w] = 0]
    /\ UNCHANGED <<generation_lock, persona>>

\* scrape_user: the comments loop, then "Scraping complete!".
CommentsLoop(w) ==
    /\ pc[w] = "comments"
    /\ \/ /\ batches[w] < MaxBatches
          /\ (batches[w] + 1) * CommentBatch <= MaxComments
          /\ Advance(w, "fetching_comments",
                     ((batches[w] + 1) * CommentBatch * 100) \div MaxComments,
                     "Processed comments...", "comments")
          /\ batches' = [batches EXCEPT ![w] = @ + 1]
          /\ UNCHANGED exc
       \/ /\ Advance(w, "fetching_comments", 100, "Scraping complete!", "check")
          /\ batches' = [batches EXCEPT ![w] = 0]
          /\ UNCHANGED exc
       \/ /\ Raise(w, "fetch failed")
          /\ batches' = [batches EXCEPT ![w] = 0]
    /\ UNCHANGED <<generation_lock, persona>>

\* str() of the ValueError raised when nothing was fetched.
NoDataMessage == "No data found for user"

\* EmptyCheck without the raise: the error is reported and the pipeline goes on.
EmptyCheck_NoRaise(w) ==
    /\ pc[w] = "check"
    /\ \/ Advance(w, "error", 0, NoDataMessage, "prep50")
       \/ Advance(w, "preparing_data", 0, "Processing collected data...", "prep50")
    /\ UNCHANGED <<generation_lock, exc, batches, persona>>

\* generate_full_persona: "if not posts and not comments".
EmptyCheck(w) ==
    /\ pc[w] = "check"
    /\ \/ Advance(w, "error", 0, NoDataMessage, "nodata")
       \/ Advance(w, "preparing_data", 0, "Processing collected data...", "prep50")
    /\ UNCHANGED <<generation_lock, exc, batches, persona>>

\* generate_full_persona: raise ValueError(no data), caught by its except branch.
NoDataRaise(w) ==
    /\ pc[w] = "nodata"
    /\ Raise(w, NoDataMessage)
    /\ UNCHANGED <<generation_lock, batches, persona>>

\* generate_persona: generate_with_timeout() returns a persona or None (it catches
\* every exception), then the report of the path taken.
Invoke(w) ==
    /\ pc[w] = "invoke"
    /\ \E r \in InvokeResults :
          IF r # None
          THEN /\ Advance(w, "generating_persona", 85,
                          "AI generation complete, processing results...", "gp100a")
               /\ persona' = [persona EXCEPT ![w] = "model"]
          ELSE /\ Advance(w, "generating_persona", 60,
                          "Using fallback generation method...", "gp100b")
               /\ UNCHANGED persona
    /\ UNCHANGED <<generation_lock, exc, batches>>

\* generate_persona: create_fallback_persona(), then the last report of the
\* fallback path.
Fallback(w) ==
    /\ pc[w] = "gp100b"
    /\ Advance(w, "generating_persona", 100,
               "Persona generation complete (fallback method)!", "sav0")
    /\ persona' = [persona EXCEPT ![w] = "fallback"]
    /\ UNCHANGED <<generation_lock, exc, batches>>

\* save_persona: the two files are written (or the write raises), then its last report.
SaveWrite(w) ==
    /\ pc[w] = "fsav100"
    /\ \/ /\ Advance(w, "saving", 100, "Results saved", "sav100")
          /\ UNCHANGED exc
       \/ Raise(w, "save failed")
    /\ UNCHANGED <<generation_lock, batches, persona>>

\* Complete without the output_file key in its update.
Complete_NoOutput(w) ==
    /\ pc[w] = "complete"
    /\ current_status' =
          [current_status EXCEPT !.stage = "completed", !.progress = 100,
               !.message = "Persona generation completed successfully!",
               !.completed = TRUE, !.error = None]
    /\ rep' = [rep EXCEPT ![w] = Report("completed", 100)]
    /\ hi' = [hi EXCEPT ![w] = Max(@, Rank("completed"))]
    /\ pc' = [pc EXCEPT ![w] = "finally"]
    /\ UNCHANGED <<generation_lock, exc, batches, persona>>

\* run_generation: the update after generate_full_persona returned output_file;
\* the file of job w is named w.
Complete(w) ==
    /\ pc[w] = "complete"
    /\ current_status' =
          [current_status EXCEPT !.stage = "completed", !.progress = 100,
               !.message = "Persona generation completed successfully!",
               !.completed = TRUE, !.output_file = w, !.error = None]
    /\ rep' = [rep EXCEPT ![w] = Report("completed", 100)]
    /\ hi' = [hi EXCEPT ![w] = Max(@, Rank("completed"))]
    /\ pc' = [pc EXCEPT ![w] = "finally"]
    /\ UNCHANGED <<generation_lock, exc, batches, persona>>

\* Except that starts the job over instead of recording the failure.
Except_Retries(w) ==
    /\ pc[w] = "except"
    /\ current_status' = Starting(current_status)
    /\ pc' = [pc EXCEPT ![w] = "construct"]
    /\ exc' = [exc EXCEPT ![w] = None]
    /\ UNCHANGED <<generation_lock, batches, persona, rep, hi>>

\* run_generation: "except Exception as e" after generate_full_persona re-raised.
Except(w) ==
    /\ pc[w] = "except"
    /\ current_status' = ExceptUpdate(current_status, exc[w])
    /\ pc' = [pc EXCEPT ![w] = "finally"]
    /\ UNCHANGED <<generation_lock, exc, batches, persona, rep, hi>>

\* Finally with the release at the end of the try block instead: a worker whose
\* pipeline raised ends without releasing the lock.
Finally_OnlyOnSuccess(w) ==
    /\ pc[w] = "finally"
    /\ generation_lock' = IF exc[w] = None THEN FALSE ELSE generation_lock
    /\ pc' = [pc EXCEPT ![w] = "done"]
    /\ exc' = [exc EXCEPT ![w] = None]
    /\ persona' = [persona EXCEPT ![w] = None]
    /\ UNCHANGED <<current_status, batches, rep, hi>>

\* run_generation: "finally: generation_lock = False"; the thread ends, and its
\* locals with it.
Finally(w) ==
    /\ pc[w] = "finally"
    /\ generation_lock' = FALSE
    /\ pc' = [pc EXCEPT ![w] = "done"]
    /\ exc' = [exc EXCEPT ![w] = None]
    /\ persona' = [persona EXCEPT ![w] = None]
    /\ UNCHANGED <<current_status, batches, rep, hi>>

\* One step of job w's worker thread.
run_generation(w) ==
    /\ \/ AcquireLock(w)
       \/ Construct(w)
       \/ Step(w)
       \/ LoadModel(w)
       \/ UserCheck(w)
       \/ PostsLoop(w)
       \/ CommentsLoop(w)
       \/ EmptyCheck(w)
       \/ NoDataRaise(w)
       \/ Invoke(w)
       \/ Fallback(w)
       \/ SaveWrite(w)
       \/ Complete(w)
       \/ Except(w)
       \/ Finally(w)
    /\ resp' = "none"
    /\ stale_warning' = FALSE
    /\ UNCHANGED mgrVars

-----------------------------------------------------------------------------
(* The status pollers: api_status() and get_status().                      *)

\* The keys api_status() reads from current_status, in the order it reads them.
ReadOrder == <<"stage", "completed", "has_error", "error", "message", "progress",
               "output_file">>

\* Nothing observed yet: no candidate chain run, no call of generate_with_timeout
\* (inv and result are those of the last call once made is true, job its worker).
NoProbe ==
    LET i == [sigalrm |-> FALSE, main_thread |-> FALSE, cuda |-> FALSE, budget |-> 64,
              duration |-> 100, response |-> [kind |-> "empty", len |-> 0]]
    IN  [chains |-> 0, made |-> FALSE, job |-> 0, inv |-> i,
         result |-> generate_with_timeout(i)]

\* No request in progress.  snap is the response built so far (the last response
\* when no request is in progress), seen the values current_status has had since
\* the request in progress began.
NoRead == [at |-> 0, lock |-> FALSE, snap |-> << >>, seen |-> {}]

\* current_status.get(key) as api_status() uses it.
Get(s, key) == IF key = "has_error" THEN s.error # None ELSE s[key]

\* api_status(): the first key of the response, "lock".
api_status_begin ==
    /\ rd.at = 0
    /\ rd' = [at |-> 1, lock |-> generation_lock, snap |-> << >>,
              seen |-> {current_status}]
    /\ UNCHANGED webVars
    /\ UNCHANGED jobVars
    /\ UNCHANGED mgrVars
    /\ UNCHANGED <<probe, engine>>

\* api_status(): the next current_status.get(...) of the response.
api_status_get ==
    /\ rd.at \in 1..Len(ReadOrder)
    /\ rd' = [rd EXCEPT !.at = IF rd.at = Len(ReadOrder) THEN 0 ELSE rd.at + 1,
                        !.snap = Append(rd.snap, Get(current_status, ReadOrder[rd.at])),
                        !.seen = IF rd.at = Len(ReadOrder) THEN {} ELSE @]
    /\ UNCHANGED webVars
    /\ UNCHANGED jobVars
    /\ UNCHANGED mgrVars
    /\ UNCHANGED <<probe, engine>>

\* get_status(): current_status.copy(), then the lock.
get_status ==
    /\ rd.at = 0
    /\ rd' = [at |-> 0, lock |-> generation_lock,
              snap |-> [k \in 1..Len(ReadOrder) |-> Get(current_status, ReadOrder[k])],
              seen |-> {}]
    /\ UNCHANGED webVars
    /\ UNCHANGED jobVars
    /\ UNCHANGED mgrVars
    /\ UNCHANGED <<probe, engine>>

-----------------------------------------------------------------------------
(* The web application: requests and workers.                              *)

Init ==
    /\ current_status = InitialStatus
    /\ generation_lock = FALSE
    /\ resp = "none"
    /\ stale_warning = FALSE
    /\ pc = [w \in Jobs |-> "unborn"]
    /\ exc = [w \in Jobs |-> None]
    /\ batches = [w \in Jobs |-> 0]
    /\ persona = [w \in Jobs |-> None]
    /\ rep = [w \in Jobs |-> Report("idle", 0)]
    /\ hi = [w \in Jobs |-> 0]
    /\ mgr = NewManager
    /\ env = [i \in Candidates |-> "ok"]
    /\ cache_dir = FALSE
    /\ rd = NoRead
    /\ probe = NoProbe
    /\ engine = NoEngine

\* Submits with a username, resets, and the steps of the workers.
Next ==
    \/ generate
    \/ reset_generation
    \/ \E w \in Jobs : run_generation(w) /\ UNCHANGED obsVars

Spec == Init /\ [][Next]_vars

\* The same with the submits that carry no usable username.
NextRequests ==
    \/ Next
    \/ generate_invalid

SpecRequests == Init /\ [][NextRequests]_vars

-----------------------------------------------------------------------------
(* The web application when every request is a well-formed submit.         *)

NextNoReset ==
    \/ generate
    \/ \E w \in Jobs : run_generation(w) /\ UNCHANGED obsVars

SpecNoReset == Init /\ [][NextNoReset]_vars

-----------------------------------------------------------------------------
(* Submits made while at most one worker thread is alive, and the workers, *)
(* each worker thread scheduled again and again: the fetches, the model    *)
(* invocation and the file write return or raise.                          *)

Alive(w) == pc[w] \notin {"unborn", "done"}

generate_live ==
    /\ Cardinality({w \in Jobs : Alive(w)}) <= 1
    /\ generate

NextLive ==
    \/ generate_live
    \/ \E w \in Jobs : run_generation(w) /\ UNCHANGED obsVars

SpecLive ==
    /\ Init
    /\ [][NextLive]_vars
    /\ \A w \in Jobs : WF_vars(run_generation(w) /\ UNCHANGED obsVars)

\* The same submits and workers, with resets.
NextReset ==
    \/ generate_live
    \/ reset_generation
    \/ \E w \in Jobs : run_generation(w) /\ UNCHANGED obsVars

SpecReset == Init /\ [][NextReset]_vars

-----------------------------------------------------------------------------
(* One job and a poller: the state generate() leaves when it has admitted  *)
(* the first job, then the worker's steps and the poller's.                *)

InitRead ==
    /\ current_status = Starting(InitialStatus)
    /\ generation_lock = FALSE
    /\ resp = "started"
    /\ stale_warning = FALSE
    /\ pc = [w \in Jobs |-> IF w = 1 THEN "start" ELSE "unborn"]
    /\ exc = [w \in Jobs |-> None]
    /\ batches = [w \in Jobs |-> 0]
    /\ persona = [w \in Jobs |-> None]
    /\ rep = [w \in Jobs |-> IF w = 1 THEN Report("starting", 0) ELSE Report("idle", 0)]
    /\ hi = [w \in Jobs |-> IF w = 1 THEN Rank("starting") ELSE 0]
    /\ mgr = NewManager
    /\ env = [i \in Candidates |-> "ok"]
    /\ cache_dir = FALSE
    /\ rd = NoRead
    /\ probe = NoProbe
    /\ engine = NoEngine

\* A step of the worker while a poller may be reading: the poller's record of the
\* values current_status has had grows.
WorkerWhileRead ==
    /\ run_generation(1)
    /\ rd' = [rd EXCEPT !.seen = IF rd.at = 0 THEN @ ELSE @ \cup {current_status'}]
    /\ UNCHANGED <<probe, engine>>

NextRead ==
    \/ WorkerWhileRead
    \/ api_status_begin
    \/ api_status_get
    \/ get_status

SpecRead == InitRead /\ [][NextRead]_vars

-----------------------------------------------------------------------------
(* Jobs submitted one after the other, each when the one before has ended, *)
(* with an observer of what the workers call.                              *)

\* generate() from a client that waits for the previous job's worker to end.
generate_sequential ==
    /\ \A w \in Jobs : pc[w] \in {"unborn", "done"}
    /\ generate

\* A step of job w's worker, observed: a load_model() on the job's new manager
\* runs the candidate chain; a call of generate_with_timeout is one the worker's
\* next report agrees with.
WorkerObserved(w) ==
    /\ run_generation(w)
    /\ CASE pc[w] = "load" -> probe' = [probe EXCEPT !.chains = @ + 1]
         [] pc[w] = "invoke" ->
               \E i \in WorkerInvocations :
                  /\ (generate_with_timeout(i).persona # None) = (pc'[w] = "gp100a")
                  /\ probe' = [probe EXCEPT !.made = TRUE, !.job = w, !.inv = i,
                                            !.result = generate_with_timeout(i)]
         [] OTHER -> UNCHANGED probe
    /\ UNCHANGED <<rd, engine>>

NextSequential ==
    \/ generate_sequential
    \/ \E w \in Jobs : WorkerObserved(w)

SpecSequential == Init /\ [][NextSequential]_vars

-----------------------------------------------------------------------------
(* One ModelManager: load_model() called again and again, step by step.    *)

InitLoad ==
    /\ current_status = InitialStatus
    /\ generation_lock = FALSE
    /\ resp = "none"
    /\ stale_warning = FALSE
    /\ pc = [w \in Jobs |-> "unborn"]
    /\ exc = [w \in Jobs |-> None]
    /\ batches = [w \in Jobs |-> 0]
    /\ persona = [w \in Jobs |-> None]
    /\ rep = [w \in Jobs |-> Report("idle", 0)]
    /\ hi = [w \in Jobs |-> 0]
    /\ mgr = NewManager
    /\ env \in Envs
    /\ cache_dir \in BOOLEAN
    /\ rd = NoRead
    /\ probe = NoProbe
    /\ engine = NoEngine

\* load_model() is called; what the candidates will do is the environment's choice.
load_model_call ==
    /\ mgr.at \in {"new", "returned", "raised"}
    /\ mgr' = [mgr EXCEPT !.at = "call", !.rep = Report("idle", 0),
                          !.prev = Report("idle", 0)]
    /\ env' \in Envs
    /\ UNCHANGED cache_dir

\* The call goes on to its next report, its return or its raise.
load_model_step ==
    /\ mgr.at \notin {"new", "returned", "raised"}
    /\ mgr' = LoadStep(mgr, env)
    /\ UNCHANGED <<env, cache_dir>>

\* clear_model_cache() between two calls of load_model: the cache directory is
\* removed when it exists; no field of the manager is assigned.
clear_model_cache ==
    /\ mgr.at \in {"new", "returned", "raised"}
    /\ cache_dir' = FALSE
    /\ UNCHANGED <<mgr, env>>

NextLoad ==
    /\ \/ load_model_call
       \/ load_model_step
       \/ clear_model_cache
    /\ UNCHANGED webVars
    /\ UNCHANGED jobVars
    /\ UNCHANGED obsVars

SpecLoad == InitLoad /\ [][NextLoad]_vars

-----------------------------------------------------------------------------
(* The analysis engine run on a behaviour record, again and again: each    *)
(* run of main.py is an interpreter of its own, with its own hash seed.    *)

InitAnalysis ==
    /\ current_status = InitialStatus
    /\ generation_lock = FALSE
    /\ resp = "none"
    /\ stale_warning = FALSE
    /\ pc = [w \in Jobs |-> "unborn"]
    /\ exc = [w \in Jobs |-> None]
    /\ batches = [w \in Jobs |-> 0]
    /\ persona = [w \in Jobs |-> None]
    /\ rep = [w \in Jobs |-> Report("idle", 0)]
    /\ hi = [w \in Jobs |-> 0]
    /\ mgr = NewManager
    /\ env = [i \in Candidates |-> "ok"]
    /\ cache_dir = FALSE
    /\ rd = NoRead
    /\ probe = NoProbe
    /\ \/ \E posts \in UpTo(Posts, MaxSample) \cup {GamingExample},
             scored \in UpTo(ScoredComments, MaxSample) :
             engine = [NoEngine EXCEPT !.posts = posts, !.comments = scored]
       \/ \E worded \in UpTo(WordedComments, MaxSample) :
             engine = [NoEngine EXCEPT !.comments = worded]

\* One run of the fallback synthesis on the record.
fallback_run ==
    /\ \E seed \in HashSeeds :
          LET result == create_fallback_persona(SampleUser, engine.posts,
                                                engine.comments, seed)
          IN  engine' = [engine EXCEPT !.ran = TRUE,
                                       !.first = IF engine.ran THEN @ ELSE result,
                                       !.last = result]
    /\ UNCHANGED webVars
    /\ UNCHANGED jobVars
    /\ UNCHANGED mgrVars
    /\ UNCHANGED <<rd, probe>>

NextAnalysis == fallback_run

SpecAnalysis == InitAnalysis /\ [][NextAnalysis]_vars

-----------------------------------------------------------------------------
(* generate_persona and save_persona run on a behaviour record, on the     *)
(* model path and on the fallback path.                                    *)

\* The one run of a job, in an interpreter with hash seed seed, with r what the
\* model returned.
persona_run ==
    /\ engine.job.path = "none"
    /\ \E seed \in HashSeeds, r \in InvokeResults :
          LET result == generate_persona(SampleUser, engine.posts, engine.comments,
                                         seed, r)
          IN  engine' = [engine EXCEPT
                            !.job = [path |-> IF r # None THEN "model" ELSE "fallback",
                                     seed |-> seed,
                                     persona |-> result.persona,
                                     sentiment_data |->
                                         save_persona(result.sentiment_data)]]
    /\ UNCHANGED webVars
    /\ UNCHANGED jobVars
    /\ UNCHANGED mgrVars
    /\ UNCHANGED <<rd, probe>>

NextPersona == persona_run

SpecPersona == InitAnalysis /\ [][NextPersona]_vars

-----------------------------------------------------------------------------
(* analyze_sentiment and analyze_posting_patterns run on samples, and      *)
(* analyze_sentiment run again on a list that differs after the window.    *)

InitSentiment ==
    /\ current_status = InitialStatus
    /\ generation_lock = FALSE
    /\ resp = "none"
    /\ stale_warning = FALSE
    /\ pc = [w \in Jobs |-> "unborn"]
    /\ exc = [w \in Jobs |-> None]
    /\ batches = [w \in Jobs |-> 0]
    /\ persona = [w \in Jobs |-> None]
    /\ rep = [w \in Jobs |-> Report("idle", 0)]
    /\ hi = [w \in Jobs |-> 0]
    /\ mgr = NewManager
    /\ env = [i \in Candidates |-> "ok"]
    /\ cache_dir = FALSE
    /\ rd = NoRead
    /\ probe = NoProbe
    /\ \/ \E comments \in ToneSamples \cup AxisSamples \cup QuoteSamples
                             \cup WindowSamples :
             engine = [scan |-> [NoScan EXCEPT !.comments = comments]]
       \/ \E posts \in ActivityPosts, comments \in ActivityComments :
             engine = [scan |-> [NoScan EXCEPT !.posts = posts,
                                               !.comments = comments]]

\* analyze_sentiment(comments) on the sample.
sentiment_run ==
    /\ ~engine.scan.ran
    /\ engine' = [engine EXCEPT
                     !.scan.ran = TRUE,
                     !.scan.counters = Counters(engine.scan.comments),
                     !.scan.profile = SentimentProfile(engine.scan.comments)]
    /\ UNCHANGED webVars
    /\ UNCHANGED jobVars
    /\ UNCHANGED mgrVars
    /\ UNCHANGED <<rd, probe>>

\* analyze_sentiment on a list longer than the window that has the sample's first
\* 100 comments and other comments after them.
sentiment_rerun ==
    /\ engine.scan.ran
    /\ ~engine.scan.again
    /\ Len(engine.scan.comments) > CommentWindow
    /\ \E tail \in Tails :
          LET next_comments == Prefix(engine.scan.comments, CommentWindow) \o tail
          IN  /\ Len(next_comments) > CommentWindow
              /\ engine' = [engine EXCEPT
                               !.scan.again = TRUE,
                               !.scan.next_comments = next_comments,
                               !.scan.next_profile = SentimentProfile(next_comments)]
    /\ UNCHANGED webVars
    /\ UNCHANGED jobVars
    /\ UNCHANGED mgrVars
    /\ UNCHANGED <<rd, probe>>

\* analyze_posting_patterns(posts, comments) on the sample.
patterns_run ==
    /\ ~engine.scan.measured
    /\ engine' = [engine EXCEPT
                     !.scan.measured = TRUE,
                     !.scan.patterns = analyze_posting_patterns(engine.scan.posts,
                                                                engine.scan.comments)]
    /\ UNCHANGED webVars
    /\ UNCHANGED jobVars
    /\ UNCHANGED mgrVars
    /\ UNCHANGED <<rd, probe>>

NextSentiment ==
    \/ sentiment_run
    \/ sentiment_rerun
    \/ patterns_run

SpecSentiment == InitSentiment /\ [][NextSentiment]_vars

-----------------------------------------------------------------------------
(* Jobs one after the other, each with the progress_updater thread that    *)
(* generate_persona starts before the model is called.                     *)

InitUpdater ==
    /\ current_status = InitialStatus
    /\ generation_lock = FALSE
    /\ resp = "none"
    /\ stale_warning = FALSE
    /\ pc = [w \in Jobs |-> "unborn"]
    /\ exc = [w \in Jobs |-> None]
    /\ batches = [w \in Jobs |-> 0]
    /\ persona = [w \in Jobs |-> None]
    /\ rep = [w \in Jobs |-> Report("idle", 0)]
    /\ hi = [w \in Jobs |-> 0]
    /\ mgr = NewManager
    /\ env = [i \in Candidates |-> "ok"]
    /\ cache_dir = FALSE
    /\ rd = NoRead
    /\ probe = NoProbe
    /\ engine = [updater |-> [w \in Jobs |-> NoUpdater]]

\* A step of job w's worker: the report before the model is called is followed by
\* "self._generation_complete = False" and the thread's start, the return of
\* generate_with_timeout by "self._generation_complete = True".
WorkerWithUpdater(w) ==
    /\ run_generation(w)
    /\ engine' =
          IF pc[w] = "pgen20"
          THEN [engine EXCEPT !.updater[w] =
                   [NoUpdater EXCEPT !.started = TRUE, !.has_flag = TRUE]]
          ELSE IF pc[w] = "invoke"
          THEN [engine EXCEPT !.updater[w].complete = TRUE]
          ELSE engine
    /\ UNCHANGED <<rd, probe>>

\* One pass of progress_updater's loop with the report made whatever the attribute.
progress_updater_NoTest(w) ==
    /\ engine.updater[w].started
    /\ engine.updater[w].i < UpdaterStop
    /\ current_status' =
          web_progress_callback(current_status, "generating_persona",
                                engine.updater[w].i,
                                "AI still generating... ("
                                    \o ToString(engine.updater[w].i) \o "% complete)")
    /\ engine' = [engine EXCEPT
                     !.updater[w].i = @ + UpdaterStep,
                     !.updater[w].late =
                         IF engine.updater[w].complete THEN 1 ELSE @,
                     !.updater[w].late_writes =
                         IF engine.updater[w].complete THEN 1 ELSE @]
    /\ resp' = "none"
    /\ stale_warning' = FALSE
    /\ UNCHANGED <<generation_lock, pc, exc, batches, persona, rep, hi>>
    /\ UNCHANGED mgrVars
    /\ UNCHANGED <<rd, probe>>

\* One pass of progress_updater's loop, after its sleep: the report is made when
\* the PersonaGenerator has no attribute _generation_complete.
progress_updater(w) ==
    /\ engine.updater[w].started
    /\ engine.updater[w].i < UpdaterStop
    /\ IF ~engine.updater[w].has_flag
       THEN current_status' =
                web_progress_callback(current_status, "generating_persona",
                                      engine.updater[w].i,
                                      "AI still generating... ("
                                          \o ToString(engine.updater[w].i)
                                          \o "% complete)")
       ELSE UNCHANGED current_status
    /\ engine' = [engine EXCEPT
                     !.updater[w].i = @ + UpdaterStep,
                     !.updater[w].late =
                         IF engine.updater[w].complete THEN 1 ELSE @,
                     !.updater[w].late_writes =
                         IF engine.updater[w].complete /\ ~engine.updater[w].has_flag
                         THEN 1 ELSE @]
    /\ resp' = "none"
    /\ stale_warning' = FALSE
    /\ UNCHANGED <<generation_lock, pc, exc, batches, persona, rep, hi>>
    /\ UNCHANGED mgrVars
    /\ UNCHANGED <<rd, probe>>

NextUpdater ==
    \/ generate_sequential
    \/ \E w \in Jobs : WorkerWithUpdater(w)
    \/ \E w \in Jobs : progress_updater(w)

SpecUpdater == InitUpdater /\ [][NextUpdater]_vars

-----------------------------------------------------------------------------
(* Properties.                                                             *)

\* The statements of generate_full_persona after its first report: worker w is
\* inside the pipeline.
PipelinePcs ==
    DOMAIN Sites \cup {"load", "scr56", "posts", "comments", "check", "nodata",
                       "invoke", "gp100b", "fsav100"}
InPipeline(w) == pc[w] \in PipelinePcs

Terminal == {"completed", "error"}

\* Job w was admitted and has not yet reported Completed or Errored.
InFlight(w) == pc[w] # "unborn" /\ hi[w] < Rank("completed")

\* This step admits a job: a worker thread is started.
Admitted == \E w \in Jobs : pc[w] = "unborn" /\ pc'[w] = "start"

\* C1: for every interleaving of submit and reset requests with the workers, at most
\* one job worker is executing the generation pipeline at any instant.
C1_AtMostOneRunning ==
    Cardinality({w \in Jobs : InPipeline(w)}) <= 1

\* C2: with no reset involved, once a submit has been accepted every further submit
\* is rejected until the accepted job's status has become Completed or Errored: no
\* two admitted jobs are in flight together.
C2_OneInFlight ==
    Cardinality({w \in Jobs : InFlight(w)}) <= 1

\* C3: a submit made while the recorded status is Completed or Errored is always
\* accepted, whether or not the lock is held: the lock is cleared, the new job
\* starts, and the answer is never AlreadyRunning.
C3_TerminalSubmitAccepted ==
    [][(generate /\ current_status.stage \in Terminal)
         => /\ resp' = "started"
            /\ Admitted
            /\ ~generation_lock'
            /\ current_status'.stage = "starting"]_vars

\* C3 witness: a submit was accepted after the held lock was cleared as stale.
C3_Witness ==
    /\ resp = "started"
    /\ stale_warning
    /\ \E w \in Jobs : pc[w] = "start"

\* C4: a submit made while the lock is held, the stage is neither Completed nor
\* Errored and completed is false is rejected with AlreadyRunning; the rejection
\* starts no worker and leaves the status record and the lock unchanged.
C4_BusySubmitRejected ==
    [][(/\ generate
        /\ generation_lock
        /\ current_status.stage \notin Terminal
        /\ ~current_status.completed)
         => /\ resp' = "busy"
            /\ ~Admitted
            /\ UNCHANGED <<current_status, generation_lock, pc>>]_vars

\* C4 witness: a submit was rejected while a worker held the lock.
C4_Witness ==
    /\ resp = "busy"
    /\ generation_lock
    /\ \E w \in Jobs : InPipeline(w)

\* C5: every job worker releases the lock on every exit path: the step that ends a
\* worker thread, after a result or after any exception, leaves the lock not held.
C5_LockReleasedOnExit ==
    [][\A w \in Jobs : (pc[w] # "done" /\ pc'[w] = "done") => ~generation_lock']_vars

\* C5 witness: a worker whose pipeline raised has ended, and the lock is not held.
C5_Witness ==
    \E w \in Jobs : pc[w] = "done" /\ rep[w].stage = "error" /\ ~generation_lock

\* C6: from any state, immediately after reset the status is stage idle, progress 0,
\* no error, completed false, no output reference, and the lock is not held.
C6_ResetPostState ==
    [][reset_generation
         => /\ current_status'.stage = "idle"
            /\ current_status'.progress = 0
            /\ current_status'.error = None
            /\ ~current_status'.completed
            /\ current_status'.output_file = 0
            /\ ~generation_lock']_vars

\* C6 witness: reset has just run while a worker was inside the pipeline.
C6_Witness ==
    /\ resp = "reset"
    /\ current_status = ResetStatus
    /\ ~generation_lock
    /\ \E w \in Jobs : InPipeline(w)

\* The status record a finished api_status() response describes.
Snapshot(snap) ==
    Status(snap[1], snap[6], snap[5], snap[4], snap[2], snap[7])

\* C7: a status read concurrent with a worker's update returns the complete record
\* as it was before the update or as it is after it, never a mix of both: the
\* response a poller ends with is a value current_status had during the request.
C7_NoTornRead ==
    [][(rd.at = Len(ReadOrder) /\ rd'.at = 0) => Snapshot(rd'.snap) \in rd.seen]_vars

\* C8: within one job the reported stage only moves forward: the stage of the last
\* report is never earlier than a stage the job has reported before.
C8_StageMonotonic ==
    \A w \in Jobs : Rank(rep[w].stage) >= hi[w]

\* C9: two consecutive progress reports that carry the same stage never decrease,
\* the model-loading stage when a candidate fails included.
C9_ProgressMonotonic ==
    mgr.prev.stage = mgr.rep.stage => mgr.rep.progress >= mgr.prev.progress

\* C10: when every model candidate fails to load, the job still ends Completed, with
\* the persona of the rule-based fallback, and does not end Errored: a worker that
\* has written its final status after load_model raised has reported Completed.
C10_CompletedWithoutModel ==
    \A w \in Jobs :
        (pc[w] = "finally" /\ exc[w] = NoModelMessage)
            => rep[w].stage = "completed" /\ persona[w] = "fallback"

\* The pcs of a worker between the end of generate_persona and its cleanup.
AfterPersonaPcs == {"sav0", "fsav0", "fsav100", "sav100", "fin0", "fin100", "complete"}

\* The observed call of generate_with_timeout ran past its deadline.
DeadlineExceeded == probe.made /\ probe.inv.duration > timeout_duration(probe.inv)

\* C11: a model invocation that exceeds its deadline yields 'no persona' and no
\* exception: the job's persona is then the rule-based one, the job ends Completed
\* unless persistence fails, and the worker ends with the lock released.
C11_TimeoutFallsBack ==
    \A w \in Jobs :
        (DeadlineExceeded /\ probe.job = w)
            => /\ probe.result.persona = None
               /\ pc[w] \in AfterPersonaPcs => persona[w] = "fallback"
               /\ (pc[w] = "finally" /\ exc[w] = None) => rep[w].stage = "completed"
               /\ (pc[w] = "done" /\ \A v \in Jobs : pc[v] \in {"unborn", "done"})
                     => ~generation_lock

\* C12: when nothing was fetched the job aborts: no persona has been produced by
\* the model or by the analysis engine and nothing has been saved, the worker
\* goes from the empty check straight to the raise, to run_generation's except
\* branch and to its cleanup, and its final status write is Errored with the
\* error message and completed false.
C12_NoDataAborts ==
    [][\A w \in Jobs :
        /\ (pc[w] = "check" /\ rep'[w].stage = "error")
              => /\ pc'[w] = "nodata"
                 /\ persona[w] = None
                 /\ hi[w] <= Rank("fetching_comments")
        /\ pc[w] = "nodata"
              => /\ pc'[w] \in {"nodata", "except"}
                 /\ pc'[w] = "except" => exc'[w] = NoDataMessage
        /\ (pc[w] = "except" /\ exc[w] = NoDataMessage)
              => /\ pc'[w] \in {"except", "finally"}
                 /\ pc'[w] = "finally"
                       => /\ current_status'.stage = "error"
                          /\ current_status'.error = NoDataMessage
                          /\ current_status'.error \notin {None, ""}
                          /\ ~current_status'.completed
        /\ pc[w] = "finally" => pc'[w] \in {"finally", "done"}]_vars

\* C12 witness: a job that found no data has written its final status.
C12_Witness ==
    \E w \in Jobs :
        /\ pc[w] = "finally"
        /\ exc[w] = NoDataMessage
        /\ persona[w] = None
        /\ current_status.stage = "error"
        /\ current_status.error = NoDataMessage

\* str() of the errors the data source and the persistence step raise.
FetchOrSaveErrors == {"User not found or suspended", "fetch failed", "save failed"}

\* C13: when the fetch or the save raises, the orchestrator reports Errored and
\* re-raises; run_generation then writes stage Errored with the error field equal
\* to the raised error's message and completed false, and ends with the lock released.
C13_FailurePropagates ==
    [][\A w \in Jobs :
        /\ (pc[w] # "except" /\ pc'[w] = "except" /\ exc'[w] \in FetchOrSaveErrors)
              => /\ rep'[w] = Report("error", 0)
                 /\ current_status'.stage = "error"
        /\ (pc[w] = "except" /\ pc'[w] = "finally" /\ exc[w] \in FetchOrSaveErrors)
              => /\ current_status'.stage = "error"
                 /\ current_status'.error = exc[w]
                 /\ ~current_status'.completed
        /\ (pc[w] = "finally" /\ pc'[w] = "done" /\ exc[w] \in FetchOrSaveErrors)
              => ~generation_lock']_vars

\* C13 witness: a job whose save raised has ended; the status holds the message.
C13_Witness ==
    \E w \in Jobs :
        /\ pc[w] = "done"
        /\ current_status.stage = "error"
        /\ current_status.error = "save failed"
        /\ ~current_status.completed
        /\ ~generation_lock

\* C14: the analysis engine is deterministic: on the same posts and comments every
\* run yields the sentiment profile of the first run, the order of its lists of
\* found words included, and the persona text of the first run.
C14_Deterministic ==
    engine.ran => engine.last = engine.first

\* The counts of positive and of negative word hits in the record's comments.
PositiveHits == Hits(Prefix(engine.comments, CommentWindow), positive_words)
NegativeHits == Hits(Prefix(engine.comments, CommentWindow), negative_words)

\* C15: a sample whose positive count is exactly twice its non-zero negative count
\* is classified "generally positive", not "consistently positive"; one whose
\* negative count is exactly twice its non-zero positive count is classified "tends
\* toward critical", not "predominantly critical".
C15_BoundaryLowerTier ==
    engine.ran =>
        /\ (PositiveHits = 2 * NegativeHits /\ NegativeHits > 0) =>
              engine.last.sentiment_data.summary =
                  "Generally positive in communication with occasional criticism"
        /\ (NegativeHits = 2 * PositiveHits /\ PositiveHits > 0) =>
              engine.last.sentiment_data.summary =
                  "Tends toward critical perspectives with some positive elements"

C15_Witness ==
    /\ engine.ran
    /\ PositiveHits = 2 * NegativeHits
    /\ NegativeHits > 0
    /\ engine.last.sentiment_data.data.positive_count = PositiveHits

\* The engagement sentences the tiers call for: posts good above an average of 10,
\* moderate above 1, else limited; comments above 5, above 1, else; an empty list
\* averages 0.
PostTier(posts) ==
    IF Total(posts) > 10 * Len(posts)
    THEN "Posts tend to receive good engagement from the community"
    ELSE IF Total(posts) > Len(posts)
    THEN "Posts receive moderate community engagement"
    ELSE "Posts receive limited community engagement"
CommentTier(comments) ==
    IF Total(comments) > 5 * Len(comments)
    THEN "Comments are generally well-received"
    ELSE IF Total(comments) > Len(comments)
    THEN "Comments receive moderate appreciation"
    ELSE "Comments receive limited appreciation"

\* The persona of the latest run, with its interests and engagement parts given.
PersonaWith(interests, engagement) ==
    FallbackText(SampleUser, engine.posts, engine.comments,
                 Join(Prefix(get_top_subreddits(engine.posts, engine.comments), 3), ", "),
                 interests,
                 analyze_communication_style(engine.comments),
                 engagement,
                 format_sentiment_analysis(engine.last.sentiment_data))

\* C16: the engagement part of the fallback persona tiers the average post score
\* (good above 10, moderate above 1, else limited) and, independently, the average
\* comment score (above 5, above 1, else), an empty list averaging 0; for five posts
\* in "gaming" with scores 1..5 and no comments the persona reports the single
\* interest "Video games and gaming culture" and the moderate post tier.
C16_EngagementTiers ==
    engine.ran =>
        LET patterns == analyze_posting_patterns(engine.posts, engine.comments)
        IN  /\ engine.last.persona =
                  PersonaWith(
                      extract_interests(get_top_subreddits(engine.posts, engine.comments)),
                      Join(<< GetOr(patterns, "activity_level", "Unknown activity level"),
                              GetOr(patterns, "activity_type", "Unknown activity type"),
                              PostTier(engine.posts),
                              CommentTier(engine.comments) >>, ". ") \o ".")
            /\ (engine.posts = GamingExample /\ engine.comments = <<>>) =>
                  engine.last.persona =
                      PersonaWith(
                          "\n- Video games and gaming culture",
                          "Active user with 5 total interactions. "
                          \o "Content creator - prefers making posts over commenting. "
                          \o "Posts receive moderate community engagement. "
                          \o "Comments receive limited appreciation.")

C16_Witness ==
    /\ engine.ran
    /\ engine.posts = GamingExample
    /\ engine.comments = <<>>
    /\ engine.last.persona # ""

\* load_model is running its candidate chain, or has ended a run of it.
ChainRun == mgr.rep.stage = "loading"
Failed(j) == env[j] # "ok"

\* C17: a load_model call that finds no handle tries the candidates in list order
\* and stops at the first whose tokenizer load, weight load, pipeline construction
\* and smoke test all succeed: every candidate before the current one has failed,
\* on return the handle and the tokenizer are the current candidate's and that
\* candidate succeeded, and the call raises if and only if every candidate failed.
C17_FirstValidCandidate ==
    ChainRun =>
        /\ mgr.i \in 1..(NumModels + 1)
        /\ \A j \in Candidates : j < mgr.i => Failed(j)
        /\ mgr.at = "returned" =>
              /\ mgr.i \in Candidates
              /\ ~Failed(mgr.i)
              /\ mgr.generator = mgr.i
              /\ mgr.tokenizer = mgr.i
        /\ mgr.at = "raised" => \A j \in Candidates : Failed(j)
        /\ (mgr.at \in {"returned", "raised"} /\ \A j \in Candidates : Failed(j)) =>
              mgr.at = "raised"

C17_Witness ==
    /\ ChainRun
    /\ mgr.at = "returned"
    /\ mgr.i = 2
    /\ Failed(1)

\* C18: a call of clear_model_cache on a manager discards the handle it holds, so
\* that the next load_model runs the candidate chain again: after the call the
\* manager's generator is None.
C18_InvalidateDiscardsHandle ==
    [][clear_model_cache => mgr'.generator = 0]_vars

\* C19: the model handle is acquired at most once per process: over jobs run one
\* after the other, the candidate chain of load_model is run at most once.
C19_AcquiredOnce ==
    probe.chains <= 1

\* C20: in every status record a reader can observe, stage "error" comes with an
\* error message: the error field is not None.
C20_ErroredHasError ==
    current_status.stage = "error" => current_status.error # None

\* C21: a candidate whose smoke test fails is treated like one that failed to load:
\* its pipeline is not kept as the handle, so when load_model has raised (every
\* candidate failed) the manager holds no handle.
C21_SmokeFailureNotRetained ==
    (ChainRun /\ mgr.at = "raised") => mgr.generator = 0

\* C22: a reset made while a job is running clears the lock and the status and
\* leaves the worker as it is; the worker's next report replaces whatever status
\* it finds, the idle one included, with its own stage; and a submit that finds the
\* lock as the reset left it while the old worker is inside the pipeline is accepted
\* and does not move the old worker.
C22_ResetLeavesWorkerRunning ==
    [][/\ reset_generation =>
            /\ UNCHANGED jobVars
            /\ ~generation_lock'
            /\ current_status' = ResetStatus
       /\ \A w \in Jobs :
            (pc[w] \in DOMAIN Sites /\ pc'[w] # pc[w]) =>
                current_status'.stage = Sites[pc[w]].stage
       /\ (/\ generate
           /\ ~generation_lock
           /\ \E v \in Jobs : InPipeline(v)) =>
            /\ resp' = "started"
            /\ Admitted
            /\ \A v \in Jobs : InPipeline(v) => pc'[v] = pc[v]]_vars

\* C22 witness: the only job started so far is inside the pipeline with the lock not
\* held, which only a reset brings about, and the status is the worker's last report,
\* written over the idle status.
C22_Witness ==
    \E v \in Jobs :
        /\ InPipeline(v)
        /\ \A w \in Jobs : w # v => pc[w] = "unborn"
        /\ ~generation_lock
        /\ current_status.stage = rep[v].stage
        /\ current_status.stage \notin {"idle", "starting"}

\* C23: with no reset, the lock stays held from a worker's acquiring it until that
\* worker's own cleanup: while a worker is inside the pipeline the lock is held.
C23_LockHeldThroughPipeline ==
    \A w \in Jobs : InPipeline(w) => generation_lock

\* C24: every accepted job eventually reaches a terminal status and its worker
\* eventually releases the lock: a started worker ends, through its cleanup, after
\* having reported Completed or Errored.
C24_JobTerminates ==
    \A w \in Jobs : (pc[w] = "start") ~> (pc[w] = "done" /\ ~InFlight(w))

\* C24 witness: a job has ended after its pipeline raised, and one after completing.
C24_Witness ==
    /\ \E w \in Jobs : pc[w] = "done" /\ ~InFlight(w) /\ rep[w].stage = "completed"
    /\ \E w \in Jobs : pc[w] = "done" /\ ~InFlight(w) /\ rep[w].stage = "error"

\* Job w's save_persona has returned its file and generate_full_persona has returned.
Saved(w) == pc[w] \in {"finally", "done"} /\ rep[w].stage = "completed"

\* C25: the status is Completed only after persistence has returned the file of a
\* job, and every Completed status has progress 100, completed true, no error and
\* the output reference of a job whose file was saved.
C25_CompletedAfterSave ==
    current_status.stage = "completed" =>
        /\ current_status.progress = 100
        /\ current_status.completed
        /\ current_status.error = None
        /\ current_status.output_file \in Jobs
        /\ Saved(current_status.output_file)

\* C25 witness: the status is the Completed record of the second job.
C25_Witness ==
    /\ current_status.stage = "completed"
    /\ current_status.output_file = 2
    /\ Saved(2)

\* C26: the status of a newly accepted job supersedes the previous job's record
\* completely: a status carries an output reference only when it is a Completed
\* one, so no status of a job that has not completed names an earlier job's file.
C26_StatusSuperseded ==
    current_status.output_file # 0 => current_status.stage = "completed"

\* C27: in every reachable status record the completed flag is true exactly when
\* the stage is Completed.
C27_CompletedIffStage ==
    current_status.completed = (current_status.stage = "completed")

\* C27 witness: a Completed record has been written over by a progress report of a
\* worker: the stage is a pipeline stage and the flag is off again.
C27_Witness ==
    /\ current_status.output_file # 0
    /\ current_status.stage \notin {"completed", "idle", "starting", "error"}
    /\ ~current_status.completed

\* The observed call of generate_with_timeout is job w's, w's worker has not ended,
\* and the generation pipeline was called and answered within the deadline.
Answered(w) ==
    /\ probe.made
    /\ probe.job = w
    /\ Alive(w)
    /\ probe.result.called
    /\ ~probe.result.timed_out

\* C28: a failure of the model invocation other than a timeout, an exception raised
\* by the generation or an empty response, is absorbed: the invocation returns no
\* persona and raises nothing, the persona is then the rule-based one, and the job
\* ends Completed unless persistence fails.
C28_GenerationErrorAbsorbed ==
    \A w \in Jobs :
        (Answered(w) /\ probe.inv.response.kind \in {"raise", "empty"})
            => /\ probe.result.persona = None
               /\ pc[w] # "gp100a"
               /\ pc[w] \in AfterPersonaPcs => persona[w] = "fallback"
               /\ exc[w] \in {None, "save failed"}
               /\ (pc[w] = "finally" /\ exc[w] = None) => rep[w].stage = "completed"

\* C28 witness: the generation raised, and the job has completed with the fallback
\* persona.
C28_Witness ==
    \E w \in Jobs :
        /\ Answered(w)
        /\ probe.inv.response.kind = "raise"
        /\ pc[w] = "finally"
        /\ persona[w] = "fallback"
        /\ rep[w].stage = "completed"

\* C29: the generated text is the persona only if its part after the last
\* "PROFILE:", stripped, is at least 10 characters long; for every shorter or empty
\* text the invocation returns no persona and the persona is the rule-based one.
C29_MinimumLength ==
    \A w \in Jobs :
        (Answered(w) /\ probe.inv.response.kind = "text")
            => /\ (probe.result.persona # None) =
                      (probe.inv.response.len >= MinPersonaLength)
               /\ pc[w] \in AfterPersonaPcs =>
                      persona[w] = IF probe.inv.response.len >= MinPersonaLength
                                   THEN "model" ELSE "fallback"

\* C29 witness: a text of 9 characters was generated and the job goes on with the
\* fallback persona.
C29_Witness ==
    \E w \in Jobs :
        /\ Answered(w)
        /\ probe.inv.response.kind = "text"
        /\ probe.inv.response.len = MinPersonaLength - 1
        /\ pc[w] \in AfterPersonaPcs
        /\ persona[w] = "fallback"

\* C30: sentiment is computed on both paths and the profile handed to persistence
\* is the same on both: whether the persona is the model's or the fallback one, the
\* saved sentiment data is the rule-based analysis of the record's comments.
C30_SameProfileOnBothPaths ==
    engine.job.path # "none" =>
        engine.job.sentiment_data = analyze_sentiment(engine.comments, engine.job.seed)

\* C30 witness: the persona is the model's and the saved profile counts the
\* sentiment words of the comments.
C30_Witness ==
    /\ engine.job.path = "model"
    /\ engine.job.persona = GeneratedText
    /\ engine.job.sentiment_data.data # <<>>
    /\ engine.job.sentiment_data.data.positive_count > 0

\* C31: on a CPU the token budget of the call is min(configured, 128) and the
\* generation is called with one beam; on a GPU the configured budget is used
\* unchanged; the deadline is 600 s on a CPU and 300 s on a GPU, the CPU's longer.
C31_CpuBudgetCapped ==
    probe.made =>
        /\ ~probe.inv.cuda =>
              /\ probe.result.max_new_tokens = Min(probe.inv.budget, CpuTokenCap)
              /\ probe.result.max_new_tokens <= CpuTokenCap
              /\ probe.result.called => probe.result.num_beams = 1
              /\ probe.result.deadline = CpuTimeout
        /\ probe.inv.cuda =>
              /\ probe.result.max_new_tokens = probe.inv.budget
              /\ probe.result.deadline = GpuTimeout
        /\ CpuTimeout > GpuTimeout

\* C31 witness: a CPU call configured with more than 128 tokens ran with 128.
C31_Witness ==
    /\ probe.made
    /\ ~probe.inv.cuda
    /\ probe.inv.budget > CpuTokenCap
    /\ probe.result.called
    /\ probe.result.max_new_tokens = CpuTokenCap

\* The tone tiers by name, with the sentence of each and the tier on the other side.
ToneSentence ==
    [consistently_positive |-> "Consistently positive and optimistic in communication",
     generally_positive |->
         "Generally positive in communication with occasional criticism",
     predominantly_negative |-> "Predominantly critical or negative in commentary",
     tends_critical |->
         "Tends toward critical perspectives with some positive elements",
     balanced |-> "Balanced emotional expression in comments"]
ToneMirror ==
    [consistently_positive |-> "predominantly_negative",
     generally_positive |-> "tends_critical",
     predominantly_negative |-> "consistently_positive",
     tends_critical |-> "generally_positive",
     balanced |-> "balanced"]

\* The tiers whose rule holds for p positive and n negative hits, in rule order.
ToneRules(p, n) ==
    (IF p > 2 * n THEN <<"consistently_positive">> ELSE <<>>)
    \o (IF 5 * p > 6 * n THEN <<"generally_positive">> ELSE <<>>)
    \o (IF n > 2 * p THEN <<"predominantly_negative">> ELSE <<>>)
    \o (IF 5 * n > 6 * p THEN <<"tends_critical">> ELSE <<>>)
    \o <<"balanced">>

\* The text that follows the tone sentence in the summary.
TraitSuffix(personality_traits) ==
    IF personality_traits = <<>> THEN ""
    ELSE ". Displays " \o Join(personality_traits, ", ") \o " tendencies."

\* C32: for positive and negative counts p and n the tone of the summary is the
\* tier of the first rule that holds (p > 2n, p > 1.2n, n > 2p, n > 1.2p, else
\* balanced); equal counts, zero included, are balanced; with the counts swapped
\* the tier is the one on the other side.
C32_ToneTiers ==
    (engine.scan.ran /\ engine.scan.comments # <<>>) =>
        LET data == engine.scan.profile.data
            p == data.positive_count
            n == data.negative_count
            tier == ToneRules(p, n)[1]
        IN  /\ engine.scan.profile.summary =
                   ToneSentence[tier] \o TraitSuffix(data.personality_traits)
            /\ p = n => tier = "balanced"
            /\ SentimentSummary(n, p) = ToneSentence[ToneMirror[tier]]

\* C32 witness: six positive and five negative hits (6 is exactly 1.2 times 5) are
\* balanced, and so are none of either.
C32_Witness ==
    /\ engine.scan.ran
    /\ engine.scan.profile.data # <<>>
    /\ \/ /\ engine.scan.profile.data.positive_count = 6
          /\ engine.scan.profile.data.negative_count = 5
       \/ /\ engine.scan.profile.data.positive_count = 5
          /\ engine.scan.profile.data.negative_count = 6
    /\ engine.scan.profile.summary = ToneSentence.balanced

\* The label the thresholds give a score: the first pole above 0.6, the second
\* below 0.4, balanced from 0.4 to 0.6.
Pole(score, first, second, balanced) ==
    IF 10 * score.num > 6 * score.den THEN first
    ELSE IF 10 * score.num < 4 * score.den THEN second
    ELSE balanced

\* The score of an axis is a / max(1, a + b), within [0, 1], and 0 without counts.
AxisScore(score, a, b) ==
    /\ a >= 0
    /\ b >= 0
    /\ score = Ratio(a, IF a + b > 1 THEN a + b ELSE 1)
    /\ 0 <= score.num
    /\ score.num <= score.den
    /\ (a = 0 /\ b = 0) => score.num = 0

\* C33: each of the four MBTI scores is a / max(1, a + b) of its two counts, lies in
\* [0, 1] and is 0 when both counts are 0; its label is the first pole above 0.6,
\* the second pole below 0.4 and balanced otherwise, 0.6 and 0.4 included.
C33_AxisScores ==
    (engine.scan.ran /\ engine.scan.comments # <<>>) =>
        LET m == engine.scan.profile.data.mbti
        IN  /\ AxisScore(m.extrovert_ratio, m.extrovert_count, m.introvert_count)
            /\ AxisScore(m.sensing_ratio, m.sensing_count, m.intuition_count)
            /\ AxisScore(m.thinking_ratio, m.thinking_count, m.feeling_count)
            /\ AxisScore(m.judging_ratio, m.judging_count, m.perceiving_count)
            /\ m.summary =
                  Pole(m.extrovert_ratio, "Extrovert", "Introvert", "Balanced E/I")
                  \o " / "
                  \o Pole(m.sensing_ratio, "Sensing", "Intuition", "Balanced S/N")
                  \o " / "
                  \o Pole(m.thinking_ratio, "Thinking", "Feeling", "Balanced T/F")
                  \o " / "
                  \o Pole(m.judging_ratio, "Judging", "Perceiving", "Balanced J/P")

\* C33 witness: three extrovert hits and two introvert hits score exactly 0.6, which
\* is balanced; the axes without a hit score 0 and take their second pole.
C33_Witness ==
    /\ engine.scan.ran
    /\ engine.scan.profile.data # <<>>
    /\ engine.scan.profile.data.mbti.extrovert_count = 3
    /\ engine.scan.profile.data.mbti.introvert_count = 2
    /\ engine.scan.profile.data.mbti.summary =
           "Balanced E/I / Intuition / Feeling / Perceiving"

\* The positive and the negative words a comment's body holds.
PositiveIn(comment) == comment.words \cap Range(positive_words)
NegativeIn(comment) == comment.words \cap Range(negative_words)

\* C34: each of the three sample buckets holds at most 3 quotes, each a comment of
\* the window with a body longer than 20 and shorter than 200 characters; a positive
\* quote has a positive and no negative hit, a negative quote a negative and no
\* positive hit, a neutral quote no hit; a comment with both is in no bucket.
C34_SampleQuotes ==
    (engine.scan.ran /\ engine.scan.comments # <<>>) =>
        LET samples == engine.scan.profile.data.samples
            quotes == Range(samples.positive) \cup Range(samples.negative)
                          \cup Range(samples.neutral)
        IN  /\ Len(samples.positive) <= 3
            /\ Len(samples.negative) <= 3
            /\ Len(samples.neutral) <= 3
            /\ \A q \in quotes :
                  /\ q \in Range(Prefix(engine.scan.comments, CommentWindow))
                  /\ q.length > 20
                  /\ q.length < 200
                  /\ ~(PositiveIn(q) # {} /\ NegativeIn(q) # {})
            /\ \A q \in Range(samples.positive) :
                  PositiveIn(q) # {} /\ NegativeIn(q) = {}
            /\ \A q \in Range(samples.negative) :
                  NegativeIn(q) # {} /\ PositiveIn(q) = {}
            /\ \A q \in Range(samples.neutral) :
                  PositiveIn(q) = {} /\ NegativeIn(q) = {}

\* C34 witness: of four positive comments of 21 characters three are retained, and
\* the comment of 199 characters with both kinds of hit that follows is not.
C34_Witness ==
    /\ engine.scan.ran
    /\ Len(engine.scan.comments) = 5
    /\ \A i \in 1..4 : /\ engine.scan.comments[i].length = 21
                       /\ engine.scan.comments[i].words = {"good"}
    /\ engine.scan.comments[5].length = 199
    /\ engine.scan.comments[5].words = {"good", "bad"}
    /\ Len(engine.scan.profile.data.samples.positive) = 3
    /\ engine.scan.profile.data.samples.negative = <<>>
    /\ engine.scan.profile.data.samples.neutral = <<>>

\* C35: the activity type is the creator's when posts / (posts + comments) is above
\* 0.7, the balanced user's when it is above 0.3 and at most 0.7, the commenter's
\* when it is at most 0.3; without posts and comments the result is "No activity"
\* alone.
C35_ActivityType ==
    engine.scan.measured =>
        LET posts == Len(engine.scan.posts)
            total == Len(engine.scan.posts) + Len(engine.scan.comments)
            patterns == engine.scan.patterns
        IN  /\ total = 0 =>
                  /\ DOMAIN patterns = {"activity_level"}
                  /\ patterns.activity_level = "No activity"
            /\ (total > 0 /\ 10 * posts > 7 * total) =>
                  patterns.activity_type =
                      "Content creator - prefers making posts over commenting"
            /\ (total > 0 /\ 10 * posts > 3 * total /\ 10 * posts <= 7 * total) =>
                  patterns.activity_type = "Balanced user - mix of posts and comments"
            /\ (total > 0 /\ 10 * posts <= 3 * total) =>
                  patterns.activity_type = "Commenter - prefers engaging in discussions"

\* C35 witness: seven posts and three comments, a ratio of exactly 0.7, make a
\* balanced user.
C35_Witness ==
    /\ engine.scan.measured
    /\ Len(engine.scan.posts) = 7
    /\ Len(engine.scan.comments) = 3
    /\ engine.scan.patterns.activity_type = "Balanced user - mix of posts and comments"

\* The comments analysed: the first 100 at most.
Analysed == 1..(IF Len(engine.scan.comments) < 100 THEN Len(engine.scan.comments) ELSE 100)

\* The number of (comment analysed, word of the list) pairs with the word in the
\* comment's body.
WindowHits(words) ==
    Cardinality({pair \in Analysed \X words :
                    pair[2] \in engine.scan.comments[pair[1]].words})

RECURSIVE SumOver(_, _, _)
\* The sum of the field of f's records over the keys.
SumOver(f, keys, field) ==
    IF keys = {} THEN 0
    ELSE LET k == CHOOSE x \in keys : TRUE
         IN  f[k][field] + SumOver(f, keys \ {k}, field)

\* C36: the sentiment and trait counters are natural numbers, each the number of
\* hits of its word list in the first 100 comments at most, one per word and
\* comment; the subreddits' totals sum to the number of comments analysed and their
\* positive and negative counters to the overall positive and negative counts.
C36_CountersOverWindow ==
    engine.scan.ran =>
        LET c == engine.scan.counters
            subs == c.subreddit_sentiment
        IN  /\ c.positive_count = WindowHits(Range(positive_words))
            /\ c.negative_count = WindowHits(Range(negative_words))
            /\ c.enthusiastic_count = WindowHits(enthusiastic_words)
            /\ c.analytical_count = WindowHits(analytical_words)
            /\ c.skeptical_count = WindowHits(skeptical_words)
            /\ c.extrovert_count = WindowHits(extrovert_words)
            /\ c.introvert_count = WindowHits(introvert_words)
            /\ c.sensing_count = WindowHits(sensing_words)
            /\ c.intuition_count = WindowHits(intuition_words)
            /\ c.thinking_count = WindowHits(thinking_words)
            /\ c.feeling_count = WindowHits(feeling_words)
            /\ c.judging_count = WindowHits(judging_words)
            /\ c.perceiving_count = WindowHits(perceiving_words)
            /\ \A sub \in DOMAIN subs :
                  /\ subs[sub].positive \in Nat
                  /\ subs[sub].negative \in Nat
                  /\ subs[sub].total \in Nat
            /\ SumOver(subs, DOMAIN subs, "total") = Cardinality(Analysed)
            /\ Cardinality(Analysed) <= 100
            /\ SumOver(subs, DOMAIN subs, "positive") = c.positive_count
            /\ SumOver(subs, DOMAIN subs, "negative") = c.negative_count

\* C36 witness: of 102 comments in two subreddits the last two hold a positive and
\* an enthusiastic word, and the counters are those of the eleven such comments
\* among the first 100.
C36_Witness ==
    /\ engine.scan.ran
    /\ Len(engine.scan.comments) = 102
    /\ engine.scan.comments[101].words = {"incredible", "good"}
    /\ engine.scan.comments[102].words = {"incredible", "good"}
    /\ engine.scan.counters.positive_count = 11
    /\ engine.scan.counters.enthusiastic_count = 11
    /\ DOMAIN engine.scan.counters.subreddit_sentiment = {"gaming", "cats"}
    /\ engine.scan.counters.subreddit_sentiment["cats"].total = 11
    /\ engine.scan.counters.subreddit_sentiment["gaming"].total = 89

\* C37: the profile depends on the first 100 comments only: two lists longer than
\* 100 comments with the same first 100 comments have the same profile, summary
\* included.
C37_WindowOnly ==
    (/\ engine.scan.again
     /\ Len(engine.scan.comments) > 100
     /\ Len(engine.scan.next_comments) > 100
     /\ Prefix(engine.scan.next_comments, 100) = Prefix(engine.scan.comments, 100))
        => engine.scan.next_profile = engine.scan.profile

\* C38: the progress_updater thread makes no report after generate_with_timeout has
\* returned: none of its passes from then on writes the status, be the job running,
\* Completed or Errored, or a later job under way.
C38_UpdaterSilentAfterReturn == \A w \in Jobs : engine.updater[w].late_writes = 0

\* C38 witness: the thread of a job made a pass after the model returned, the job
\* has completed and a later job is under way.
C38_Witness ==
    \E w \in Jobs, v \in Jobs :
        /\ w # v
        /\ engine.updater[w].late > 0
        /\ engine.updater[w].i < UpdaterStop
        /\ pc[w] = "done"
        /\ exc[w] = None
        /\ Alive(v)

====
